---- MODULE Spec2Model ----
(***************************************************************************)
(* TimelineManager (src/unnamed/part_003): marker model, gap-constrained   *)
(* geometry, virtualization window, scroll synchronisation, active-marker  *)
(* tracking and star persistence, as a state machine.                      *)
(*                                                                         *)
(* Numbers.  Pixel values are integers.  A marker's normalized position    *)
(* baseN is the fraction  base / contentSpanPx  (the code divides the      *)
(* element offset by the content span), so every pixel position on the     *)
(* track is kept exactly as a numerator over that same denominator:        *)
(*     yPositions[i]  =  (pixel position of marker i) * contentSpanPx.     *)
(* Px(k) turns an integer pixel value into that unit.  No value is rounded *)
(* except where the code rounds (Math.round, Math.ceil, >> 1).             *)
(***************************************************************************)
EXTENDS Integers, Sequences, FiniteSets, TLC

VARIABLES tm, page, kv, obs

vars == <<tm, page, kv, obs>>

\* ---------------------------------------------------------------- bounds
MaxN == 3
MaxVersion == 2
MaxQueue == 2
MaxToggles == 2
MaxExternal == 2
TickMs == 60
MaxDestroys == 2
MaxRetries == 3
MaxInstances == 2
MaxAttempts == 1
MaxRelax == 5
MaxText == 7
MaxThemeChanges == 2
MaxAncestors == 17

\* ------------------------------------------------ host page (environment)
Elements == 1..MaxN
\* document top of each turn element: evenly spread down the page
Spread == [el \in Elements |-> 100 + (el - 1) * 300]
\* the offsets the geometry specification arranges the turns on
TopGrid == {100, 400, 900}
ScrollStops == {0, 300, 700, 1200}
BarHeights == {30, 300}
HiddenBarHeights == {20}
ClientHeights == {400}
ScrollHeights == {1600}
PaddingValues == {0, 12}
GapValues == {12, 300}

\* --------------------------------------------------------------- helpers
Max(a, b) == IF a >= b THEN a ELSE b
Min(a, b) == IF a <= b THEN a ELSE b
Abs(a) == IF a < 0 THEN -a ELSE a
Clamp(lo, x, hi) == Max(lo, Min(x, hi))

\* Math.round(num / den) for num >= 0, den > 0: floor(x + 1/2)
RoundDiv(num, den) == (2 * num + den) \div (2 * den)

\* ---------------------------------------------------------- identifiers
NoId == <<"null", 0>>
IndexId(index) == <<"index", index>>
NativeId(el) == <<"native", el>>

\* adapter.generateTurnId(element, index): ChatGPT returns the element's
\* data-message-id when it has one and an index-derived id otherwise; the
\* other adapters always return an index-derived id.
generateTurnId(hasNativeId, el, index) ==
    IF hasNativeId THEN NativeId(el) ELSE IndexId(index)

\* element.getBoundingClientRect().top measured from the top of the
\* document, for an element that is attached to the page
DocTop(p, el) == p.tops[el]

\* rect.top relative to the scroll container's top edge; a detached element
\* has an all-zero rectangle
RectTop(p, el) ==
    IF el \in p.present THEN DocTop(p, el) - p.scrollTop ELSE 0

\* Array.from(querySelectorAll(selector)).sort((a, b) => a.top - b.top):
\* DOM order is element order, the sort is stable
RECURSIVE SortByTop(_, _)
SortByTop(p, els) ==
    IF els = {} THEN << >>
    ELSE LET first == CHOOSE e \in els : \A f \in els :
                          \/ RectTop(p, e) < RectTop(p, f)
                          \/ RectTop(p, e) = RectTop(p, f) /\ e <= f
         IN  <<first>> \o SortByTop(p, els \ {first})

NoDot == [on |-> FALSE, active |-> FALSE, starred |-> FALSE]

\* ------------------------------------------------------- injected UI
\* An element of the injected UI is named by the number of the instance
\* that created it; NoElement is a null reference or an absent element.
NoElement == 0

NoUi == [timelineBar |-> NoElement, slider |-> NoElement]

\* this.ui, this.scrollContainer and this.conversationContainer are set by
\* init() and nulled together by destroy() (lines 1954-1958)
attached(t) == t.ui.timelineBar # NoElement

\* --------------------------------------------------- geometry engine
getTrackPadding(p) == p.trackPadding
getMinGap(p) == p.minGap

\* Pixel value k in the unit of yPositions
Px(t, k) == k * t.contentSpanPx

\* applyMinGap of lines 1047-1079; the variant before it stops after the
\* forward pass and the final clamp
applyMinGapForwardOnly(positions, minTop, maxTop, gap) ==
    LET n == Len(positions)
        fwd[i \in 1..n] ==
            IF i = 1 THEN Max(minTop, Min(positions[1], maxTop))
            ELSE Max(positions[i], fwd[i - 1] + gap)
    IN  IF n = 0 THEN positions
        ELSE [i \in 1..n |-> Clamp(minTop, fwd[i], maxTop)]

\* the variant that runs the backward pass whether or not the forward pass
\* overflowed (line 1062 left out)
applyMinGapAlwaysBackward(positions, minTop, maxTop, gap) ==
    LET n == Len(positions)
        fwd[i \in 1..n] ==
            IF i = 1 THEN Max(minTop, Min(positions[1], maxTop))
            ELSE Max(positions[i], fwd[i - 1] + gap)
        bwd[i \in 1..n] ==
            IF i = n THEN maxTop
            ELSE Min(fwd[i], bwd[i + 1] - gap)
    IN  IF n = 0 THEN positions
        ELSE [i \in 1..n |-> Clamp(minTop, bwd[i], maxTop)]

\* the variant whose forward pass starts from minTop instead of the
\* clamped first position (line 1055)
applyMinGapFromTop(positions, minTop, maxTop, gap) ==
    LET n == Len(positions)
        fwd[i \in 1..n] ==
            IF i = 1 THEN minTop
            ELSE Max(positions[i], fwd[i - 1] + gap)
    IN  IF n = 0 THEN positions
        ELSE [i \in 1..n |-> Clamp(minTop, fwd[i], maxTop)]

applyMinGap(positions, minTop, maxTop, gap) ==
    LET n == Len(positions)
        fwd[i \in 1..n] ==
            IF i = 1 THEN Max(minTop, Min(positions[1], maxTop))
            ELSE Max(positions[i], fwd[i - 1] + gap)
        bwd[i \in 1..n] ==
            IF i = n THEN maxTop
            ELSE Min(fwd[i], bwd[i + 1] - gap)
        again[i \in 1..n] ==
            IF i = 1 THEN minTop
            ELSE Max(bwd[i], again[i - 1] + gap)
        out == IF fwd[n] > maxTop
               THEN IF bwd[1] < minTop THEN again ELSE bwd
               ELSE fwd
    IN  IF n = 0 THEN positions
        ELSE [i \in 1..n |-> Clamp(minTop, out[i], maxTop)]

contentHeightFor(H, pad, minGap, N) ==
    Max(H, IF N > 0 THEN 2 * pad + Max(0, N - 1) * minGap ELSE H)

updateSlider(t, p) ==
    IF ~attached(t) THEN t
    ELSE IF t.contentHeight = 0 THEN t
    ELSE [t EXCEPT !.sliderAlwaysVisible =
              ~(t.contentHeight <= p.barH + 1 \/ p.barH - 2 * getTrackPadding(p) <= 0)]

updateTimelineGeometry(t, p) ==
    IF ~attached(t) THEN t
    ELSE
    LET H == p.barH
        pad == getTrackPadding(p)
        minGap == getMinGap(p)
        N == Len(t.markers)
        contentHeight == contentHeightFor(H, pad, minGap, N)
        usableC == Max(1, contentHeight - 2 * pad)
        desiredY == [i \in 1..N |->
                        Px(t, pad) + Clamp(0, t.markers[i].base, t.contentSpanPx) * usableC]
        adjusted == applyMinGap(desiredY, Px(t, pad), Px(t, pad + usableC), Px(t, minGap))
        t1 == [t EXCEPT
                 !.contentHeight = contentHeight,
                 \* the track clamps its scroll offset to the new content height
                 !.trackScrollTop = Min(t.trackScrollTop, Max(0, contentHeight - H)),
                 !.yPositions = adjusted,
                 !.markers = [i \in 1..N |->
                     LET m == t.markers[i]
                     IN  [m EXCEPT !.n = [num |-> Clamp(0, adjusted[i] - Px(t, pad), Px(t, usableC)),
                                          den |-> Px(t, usableC)]]]]
        t2 == updateSlider(t1, p)
    IN  [t2 EXCEPT !.sliderAlwaysVisible = (contentHeight > H + 1)]

\* scheduleMinGapCorrection of lines 1082-1100: the idle timer is re-armed,
\* a requested idle callback cancelled.  No handler in the source calls it.
scheduleMinGapCorrection(t) ==
    [t EXCEPT !.resizeIdleTimer = TRUE, !.resizeIdleRICId = FALSE]

\* reapplyMinGapAfterResize of lines 1103-1125: the cached n of every
\* marker is mapped into the bar's height, the gaps applied and n written
\* back; minGapIdle counts the passes (perfStart('minGapIdle'))
reapplyMinGapAfterResize(t, p) ==
    LET t0 == [t EXCEPT !.minGapIdle = @ + 1]
        N == Len(t.markers)
        pad == getTrackPadding(p)
        usable == Max(1, p.barH - 2 * pad)
        den == IF N = 0 THEN 1 ELSE t.markers[1].n.den
        desired == [i \in 1..N |->
                       pad * den + Clamp(0, t.markers[i].n.num, den) * usable]
        adjusted == applyMinGap(desired, pad * den, (pad + usable) * den, getMinGap(p) * den)
    IN  IF ~attached(t) \/ N = 0 THEN t0
        ELSE [t0 EXCEPT !.markers = [i \in 1..N |->
                 [t.markers[i] EXCEPT !.n = [num |-> Clamp(0, adjusted[i] - pad * den, usable * den),
                                             den |-> usable * den]]]]

\* ------------------------------------------------- scroll synchroniser
\* ratio = clamp01((scrollTop + 0.45 * clientHeight - firstUserTurnOffset) / span)
\* as the fraction num / den; firstUserTurnOffset is always 0 (line 525)
firstUserTurnOffset == 0

syncRatio(t, p) ==
    LET span == Max(1, t.contentSpanPx)
        den == 20 * span
        num == 20 * p.scrollTop + 9 * p.clientHeight - 20 * firstUserTurnOffset
    IN  [num |-> Clamp(0, num, den), den |-> den]

syncTarget(t, p) ==
    LET r == syncRatio(t, p)
        maxScroll == Max(0, t.contentHeight - p.barH)
    IN  RoundDiv(r.num * maxScroll, r.den)

\* syncTimelineTrackToMain of lines 1450-1462; the variant before it leaves
\* out the test of line 1451
syncTimelineTrackToMainAlways(t, p) ==
    IF ~attached(t) \/ t.contentHeight = 0 THEN t
    ELSE IF Abs(t.trackScrollTop - syncTarget(t, p)) > 1
         THEN [t EXCEPT !.trackScrollTop = syncTarget(t, p)]
         ELSE t

syncTimelineTrackToMain(t, p) ==
    IF t.sliderDragging THEN t
    ELSE IF ~attached(t) \/ t.contentHeight = 0 THEN t
    ELSE IF Abs(t.trackScrollTop - syncTarget(t, p)) > 1
         THEN [t EXCEPT !.trackScrollTop = syncTarget(t, p)]
         ELSE t

\* ------------------------------------------------ virtualization window
\* The two binary searches work on zero-based indices, as the code does;
\* arr[k + 1] is the element the code calls arr[k].
RECURSIVE lowerBoundLoop(_, _, _, _)
lowerBoundLoop(arr, x, lo, hi) ==
    IF lo < hi
    THEN LET mid == (lo + hi) \div 2
         IN  IF arr[mid + 1] < x
             THEN lowerBoundLoop(arr, x, mid + 1, hi)
             ELSE lowerBoundLoop(arr, x, lo, mid)
    ELSE lo

lowerBound(arr, x) == lowerBoundLoop(arr, x, 0, Len(arr))

RECURSIVE upperBoundLoop(_, _, _, _)
upperBoundLoop(arr, x, lo, hi) ==
    IF lo < hi
    THEN LET mid == (lo + hi) \div 2
         IN  IF arr[mid + 1] <= x
             THEN upperBoundLoop(arr, x, mid + 1, hi)
             ELSE upperBoundLoop(arr, x, lo, mid)
    ELSE lo - 1

\* upperBound of lines 1542-1549; the variant before it starts the search
\* with hi one short of the array length
upperBoundShortHi(arr, x) == upperBoundLoop(arr, x, 0, Len(arr) - 1)

upperBound(arr, x) == upperBoundLoop(arr, x, 0, Len(arr))

VIRTUAL_BUFFER_MIN == 100

virtualBuffer(p) == Max(VIRTUAL_BUFFER_MIN, p.barH)

\* the band of the pass: marker i (one-based) lies in it when its position
\* is within [st - buffer, st + vh + buffer]
InBand(t, p, i) ==
    /\ Px(t, t.trackScrollTop - virtualBuffer(p)) <= t.yPositions[i]
    /\ t.yPositions[i] <= Px(t, t.trackScrollTop + p.barH + virtualBuffer(p))

\* [start, end] of the pass, zero-based indices into markers
virtualRange(t, p) ==
    LET st == t.trackScrollTop
        vh == p.barH
        buffer == virtualBuffer(p)
        minY == st - buffer
        maxY == st + vh + buffer
        start == lowerBound(t.yPositions, Px(t, minY))
    IN  [start |-> start,
         end |-> Max(start - 1, upperBound(t.yPositions, Px(t, maxY)))]

\* the indices whose dots lines 1483-1495 take off the track: those of the
\* previous range that lie outside [start, end], or every index when the
\* previous range is empty
\* (the variant before it leaves out the second loop, lines 1488-1491)
leavingIndicesBelowOnly(prevStart, prevEnd, start, end, len) ==
    IF prevEnd >= prevStart
    THEN prevStart..(Min(start, prevEnd + 1) - 1)
    ELSE 0..(len - 1)

leavingIndices(prevStart, prevEnd, start, end, len) ==
    IF prevEnd >= prevStart
    THEN (prevStart..(Min(start, prevEnd + 1) - 1))
            \cup (Max(end + 1, prevStart)..prevEnd)
    ELSE 0..(len - 1)

NoPass == [ran |-> FALSE, captured |-> 0, current |-> 0,
           removed |-> {}, assigned |-> {}, committed |-> FALSE]

\* updateVirtualRangeAndRender.  Zero-based index k is marker k + 1.
\* lastPass records what the pass did, in the order of the code: the dots
\* removed (lines 1483-1495) and the handle references assigned (line 1516)
\* come before the generation re-check of line 1526; only the append of the
\* new dots to the track (line 1527) and visibleRange come after it.
updateVirtualRangeAndRender(t, p) ==
    IF ~attached(t) \/ Len(t.markers) = 0 THEN t
    ELSE
    LET localVersion == t.markersVersion
        len == Len(t.markers)
        rg == virtualRange(t, p)
        start == rg.start
        end == rg.end
        prevStart == Max(0, Min(t.visibleRange.start, len - 1))
        prevEnd == Max(-1, Min(t.visibleRange.end, len - 1))
        incremental == prevEnd >= prevStart
        leaving == leavingIndices(prevStart, prevEnd, start, end, len)
        removed == {i \in leaving : t.markers[i + 1].dotElement.on}
        dotsAfterRemoval == IF incremental THEN t.trackDots \ removed ELSE {}
        cleared == [i \in 1..len |->
                      IF (i - 1) \in leaving
                      THEN [t.markers[i] EXCEPT !.dotElement = NoDot]
                      ELSE t.markers[i]]
        inRange == {i \in start..end : i >= 0 /\ i < len}
        assigned == {i \in inRange : ~cleared[i + 1].dotElement.on}
        rendered == [i \in 1..len |->
                       IF (i - 1) \in assigned
                       THEN [cleared[i] EXCEPT !.dotElement =
                               [on |-> TRUE,
                                active |-> cleared[i].id = t.activeTurnId,
                                starred |-> cleared[i].id \in t.starred]]
                       ELSE cleared[i]]
        fresh == localVersion = t.markersVersion
        log == [ran |-> TRUE, captured |-> localVersion, current |-> t.markersVersion,
                removed |-> removed, assigned |-> assigned, committed |-> fresh]
        t1 == [t EXCEPT !.markers = rendered,
                        !.trackDots = dotsAfterRemoval,
                        !.lastPass = log]
    IN  IF ~fresh THEN t1
        ELSE updateSlider([t1 EXCEPT !.trackDots = dotsAfterRemoval \cup assigned,
                                     !.visibleRange = [start |-> start, end |-> end]], p)

\* ------------------------------------------------ active-marker tracker
MIN_ACTIVE_CHANGE_INTERVAL == 120

\* updateActiveDotUI of lines 1015-1019; the variant before it sets the
\* flag of the active marker's dot and clears none
updateActiveDotUIAddOnly(t) ==
    [t EXCEPT !.markers = [i \in 1..Len(t.markers) |->
        LET m == t.markers[i]
        IN  IF m.dotElement.on /\ m.id = t.activeTurnId
            THEN [m EXCEPT !.dotElement.active = TRUE]
            ELSE m]]

updateActiveDotUI(t) ==
    [t EXCEPT !.markers = [i \in 1..Len(t.markers) |->
        LET m == t.markers[i]
        IN  IF m.dotElement.on
            THEN [m EXCEPT !.dotElement.active = (m.id = t.activeTurnId)]
            ELSE m]]

\* the marker the reference-point scan of lines 1819-1832 selects
RECURSIVE scanActive(_, _, _, _, _)
scanActive(t, p, i, referencePoint, activeId) ==
    IF i > Len(t.markers) THEN activeId
    ELSE IF 20 * RectTop(p, t.markers[i].element) <= referencePoint
         THEN scanActive(t, p, i + 1, referencePoint, t.markers[i].id)
         ELSE activeId

\* the applied change of lines 1796-1798, 1807-1809 and 1853-1855
setActive(t, id) ==
    [updateActiveDotUI([t EXCEPT !.activeTurnId = id]) EXCEPT !.elapsed = 0]

\* line 1793 and line 1804 (the variant before atTop takes the viewport
\* height for the 10 px tolerance)
atTopWithinViewport(p) == p.scrollTop < p.clientHeight

atTop(p) == p.scrollTop < 10

atBottom(p) == p.scrollTop + p.clientHeight >= p.scrollHeight - 10

\* the buffering of a candidate, lines 1839-1851; the variant before it
\* keeps the candidate that armed the timer
bufferCandidateFirstOnly(t, activeId, since) ==
    IF t.activeChangeTimer = -1
    THEN [t EXCEPT !.pendingActiveId = activeId,
                   !.activeChangeTimer = Max(MIN_ACTIVE_CHANGE_INTERVAL - since, 0)]
    ELSE t

bufferCandidate(t, activeId, since) ==
    [t EXCEPT !.pendingActiveId = activeId,
              !.activeChangeTimer =
                  IF t.activeChangeTimer = -1
                  THEN Max(MIN_ACTIVE_CHANGE_INTERVAL - since, 0)
                  ELSE t.activeChangeTimer]

computeActiveByScroll(t, p) ==
    IF ~attached(t) \/ Len(t.markers) = 0 THEN t
    ELSE IF atTop(p)
    THEN IF t.activeTurnId # t.markers[1].id THEN setActive(t, t.markers[1].id) ELSE t
    ELSE IF atBottom(p)
    THEN IF t.activeTurnId # t.markers[Len(t.markers)].id
         THEN setActive(t, t.markers[Len(t.markers)].id) ELSE t
    ELSE
    LET \* referencePoint = containerRect.top + clientHeight * 0.45, times 20
        referencePoint == 9 * p.clientHeight
        activeId == scanActive(t, p, 1, referencePoint, t.markers[1].id)
        since == t.elapsed
    IN  IF t.activeTurnId = activeId THEN t
        ELSE IF since < MIN_ACTIVE_CHANGE_INTERVAL
        THEN bufferCandidate(t, activeId, since)
        ELSE setActive(t, activeId)

\* the callback of the trailing timer, lines 1842-1850
activeChangeTimerFired(t) ==
    LET t1 == [t EXCEPT !.activeChangeTimer = -1]
        t2 == IF t1.pendingActiveId # NoId /\ t1.pendingActiveId # t1.activeTurnId
              THEN setActive(t1, t1.pendingActiveId)
              ELSE t1
    IN  [t2 EXCEPT !.pendingActiveId = NoId]

\* scheduleScrollSync, lines 1771-1773: scrollFrames counts the callbacks
\* the instance has in the browser's animation-frame queue.  The variant
\* before it requests a frame whether or not one is pending.
scheduleScrollSyncUnguarded(t) ==
    [t EXCEPT !.scrollRafId = TRUE, !.scrollFrames = @ + 1]

scheduleScrollSync(t) ==
    IF t.scrollRafId THEN t
    ELSE [t EXCEPT !.scrollRafId = TRUE, !.scrollFrames = @ + 1]

\* the callback with the virtualization pass run before the track sync
scrollSyncFrameVirtualFirst(t, p) ==
    LET t0 == [t EXCEPT !.scrollRafId = FALSE, !.scrollFrames = @ - 1]
        t1 == updateVirtualRangeAndRender(t0, p)
        t2 == syncTimelineTrackToMain(t1, p)
        t3 == computeActiveByScroll(t2, p)
    IN  updateSlider(t3, p)

\* the animation-frame callback of scheduleScrollSync, lines 1773-1780
scrollSyncFrame(t, p) ==
    LET t0 == [t EXCEPT !.scrollRafId = FALSE, !.scrollFrames = @ - 1]
        t1 == syncTimelineTrackToMain(t0, p)
        t2 == updateVirtualRangeAndRender(t1, p)
        t3 == computeActiveByScroll(t2, p)
    IN  updateSlider(t3, p)

\* --------------------------------------------------- star persistence
\* Keys are strings, modelled as sequences of one-character strings.
\* "S" stands for the literal chatTimelineStar and "N" for
\* chatTimelineNavigate; the url is location.href without its protocol.
Digit == <<"0", "1", "2", "3", "4", "5", "6", "7", "8", "9">>

DigitValue(c) == CHOOSE d \in 0..9 : Digit[d + 1] = c

IsDigit(c) == \E d \in 0..9 : Digit[d + 1] = c

\* `${index}` for index >= 0
RECURSIVE toDecimal(_)
toDecimal(n) ==
    IF n < 10 THEN <<Digit[n + 1]>>
    ELSE toDecimal(n \div 10) \o <<Digit[(n % 10) + 1]>>

NaN == -1

\* parseInt(str, 10) for strings without sign or leading blanks: the value
\* of the longest prefix of digits, NaN when the string starts with none
RECURSIVE parseDigits(_, _)
parseDigits(str, acc) ==
    IF str = << >> \/ ~IsDigit(Head(str)) THEN acc
    ELSE parseDigits(Tail(str), 10 * acc + DigitValue(Head(str)))

parseInt(str) ==
    IF str = << >> \/ ~IsDigit(Head(str)) THEN NaN ELSE parseDigits(str, 0)

startsWith(str, prefix) ==
    Len(str) >= Len(prefix) /\ SubSeq(str, 1, Len(prefix)) = prefix

substring(str, from) == SubSeq(str, from + 1, Len(str))

starPrefix(url) == <<"S", ":">> \o url \o <<":">>

starKey(url, index) == starPrefix(url) \o toDecimal(index)

\* indexOf of the marker markerMap holds for id, zero-based; -1 when there
\* is none
markerIndex(t, id) ==
    IF \E i \in 1..Len(t.markers) : t.markers[i].id = id
    THEN (CHOOSE i \in 1..Len(t.markers) : t.markers[i].id = id) - 1
    ELSE -1

\* the dot of marker i (one-based) takes the starred class from the set
restyleStarred(t, i) ==
    IF t.markers[i].dotElement.on
    THEN [t EXCEPT !.markers[i].dotElement.starred = (t.markers[i].id \in t.starred)]
    ELSE t

\* the store operation toggleStar issues: saveStarItem or removeStarItem
toggleStarOp(t, p, id) ==
    LET index == markerIndex(t, id)
    IN  IF id \in t.starred
        THEN [op |-> "remove", key |-> starKey(p.url, index)]
        ELSE [op |-> "set", key |-> starKey(p.url, index)]

\* the store operations one call of toggleStar hands to the store: none
\* when the call returns early (lines 2074-2080)
toggleStarIssued(t, p, id) ==
    IF id = NoId \/ markerIndex(t, id) = -1 THEN << >>
    ELSE <<toggleStarOp(t, p, id)>>

toggleStar(t, id) ==
    LET index == markerIndex(t, id)
    IN  IF id = NoId \/ index = -1 THEN t
        ELSE LET t1 == IF id \in t.starred
                       THEN [t EXCEPT !.starred = @ \ {id},
                                      !.starredIndexes = @ \ {index}]
                       ELSE [t EXCEPT !.starred = @ \cup {id},
                                      !.starredIndexes = @ \cup {index}]
                 t2 == [t1 EXCEPT !.markers[index + 1].starred = (id \in t1.starred)]
             IN  restyleStarred(t2, index + 1)

\* the listener of lines 845-891 for one changed key (the variant before
\* it leaves out the prefix test of line 852)
onStorageAnyKey(t, p, key, hasNewValue) ==
    LET prefix == starPrefix(p.url)
        index == parseInt(substring(key, Len(prefix)))
    IN  IF index = NaN THEN t
        ELSE IF index >= Len(t.markers) THEN t
        ELSE LET id == t.markers[index + 1].id
                 t1 == IF hasNewValue
                       THEN [t EXCEPT !.starred = @ \cup {id},
                                      !.starredIndexes = @ \cup {index},
                                      !.markers[index + 1].starred = TRUE]
                       ELSE [t EXCEPT !.starred = @ \ {id},
                                      !.starredIndexes = @ \ {index},
                                      !.markers[index + 1].starred = FALSE]
             IN  restyleStarred(t1, index + 1)

onStorage(t, p, key, hasNewValue) ==
    LET prefix == starPrefix(p.url)
        index == parseInt(substring(key, Len(prefix)))
    IN  IF ~startsWith(key, prefix) THEN t
        ELSE IF index = NaN THEN t
        ELSE IF index >= Len(t.markers) THEN t
        ELSE LET id == t.markers[index + 1].id
                 t1 == IF hasNewValue
                       THEN [t EXCEPT !.starred = @ \cup {id},
                                      !.starredIndexes = @ \cup {index},
                                      !.markers[index + 1].starred = TRUE]
                       ELSE [t EXCEPT !.starred = @ \ {id},
                                      !.starredIndexes = @ \ {index},
                                      !.markers[index + 1].starred = FALSE]
             IN  restyleStarred(t1, index + 1)

\* loadStars, lines 1990-1996: the indexes of the stored keys of this page
loadedIndexes(data, url) ==
    {parseInt(substring(key, Len(starPrefix(url)))) :
        key \in {k \in data : /\ startsWith(k, starPrefix(url))
                              /\ parseInt(substring(k, Len(starPrefix(url)))) # NaN}}

\* ----------------------------------------------------- smooth scroll
duration == 600

NoAnim == [on |-> FALSE, start |-> 0, target |-> 0, frame |-> 0]

\* easeInOutQuad(t, b, c, d), lines 1008-1013; the operands the model
\* passes make both divisions exact
easeInOutQuad(t, b, c, d) ==
    IF 2 * t < d THEN b + (2 * c * t * t) \div (d * d)
    ELSE b - (c * ((2 * t - d) * (2 * t - 3 * d) - d * d)) \div (2 * d * d)

\* smoothScrollTo up to its first requestAnimationFrame, lines 982-990, 1005
smoothScrollTo(t, p, el) ==
    IF ~attached(t) THEN t
    ELSE [t EXCEPT !.scrollAnim =
             [on |-> TRUE, start |-> p.scrollTop,
              target |-> RectTop(p, el) + p.scrollTop, frame |-> 0]]

\* an assignment to scrollContainer.scrollTop: the container keeps the
\* offset within its scrollable range
setScrollTop(p, v) ==
    [p EXCEPT !.scrollTop = Clamp(0, v, p.scrollHeight - p.clientHeight)]

\* the offset the animation callback writes timeElapsed after its first
\* frame, lines 995-1002
animationOffset(a, timeElapsed) ==
    IF timeElapsed < duration
    THEN easeInOutQuad(timeElapsed, a.start, a.target - a.start, duration)
    ELSE a.target

\* ------------------------------------------------ navigation handoff
\* the value of chatTimelineNavigate:targetIndex; StorageAdapter.get gives
\* undefined for a key the store does not hold
NoValue == -1

\* a getNavigateData('targetIndex') call waiting for StorageAdapter.get
NavReader == [stage |-> "get", value |-> NoValue]

\* getNavigateData up to its first await, line 2549: the call of line 583
getNavigateData(t) == [t EXCEPT !.navReaders = Append(@, NavReader)]

\* the sequence without its r-th element
RemoveAt(seq, r) == SubSeq(seq, 1, r - 1) \o SubSeq(seq, r + 1, Len(seq))

\* StorageAdapter.get has answered reader r with value, lines 2549-2556:
\* undefined ends the call with null, anything else goes on to remove
navGot(t, r, value) ==
    IF value = NoValue
    THEN [t EXCEPT !.navReaders = RemoveAt(@, r)]
    ELSE [t EXCEPT !.navReaders[r] = [stage |-> "remove", value |-> value]]

\* StorageAdapter.remove has answered reader r: getNavigateData returns the
\* value and the continuation of lines 583-585 requests a frame when a
\* marker has that index
navRemoved(t, r) ==
    LET targetIndex == t.navReaders[r].value
    IN  IF targetIndex < Len(t.markers)
        THEN [t EXCEPT !.navReaders[r].stage = "frame"]
        ELSE [t EXCEPT !.navReaders = RemoveAt(@, r)]

\* the frame of lines 585-590.  A smoothScrollTo that starts while another
\* animation runs writes after it in every frame they share and ends
\* last: scrollAnim follows the later animation.
navFrame(t, p, r) ==
    LET targetIndex == t.navReaders[r].value
        t1 == [t EXCEPT !.navReaders = RemoveAt(@, r)]
    IN  IF targetIndex < Len(t.markers)
        THEN smoothScrollTo(t1, p, t.markers[targetIndex + 1].element)
        ELSE t1

\* ------------------------------------------------------ tooltip placement
\* fallbacks of the CSS variables (lines 1640-1642) and the fixed numbers of
\* lines 1646-1647
arrowOut == 6
baseGap == 12
boxGap == 8
viewportPad == 8
minW == 160
tiers == <<280, 240, 200, 160>>

\* tiers.find(t => t <= limit): the first tier that fits, 0 (undefined,
\* falsy like it) when none does
tiersFind(limit) ==
    LET fitting == {i \in 1..Len(tiers) : tiers[i] <= limit}
    IN  IF fitting = {} THEN 0
        ELSE tiers[CHOOSE i \in fitting : \A j \in fitting : i <= j]

tooltipGap == baseGap + Max(0, arrowOut) + Max(0, boxGap)
leftAvailOf(p) == Max(0, p.win.dotLeft - tooltipGap - viewportPad)
rightAvailOf(p) == Max(0, p.win.innerWidth - p.win.dotRight - tooltipGap - viewportPad)

\* computePlacementInfo of lines 1633-1670; the variant before it takes the
\* configured maximum alone for hardMax (line 1654 without floor(avail))
computePlacementInfoMaxOnly(p) ==
    LET maxW == p.win.maxW
        placement == IF rightAvailOf(p) > leftAvailOf(p) THEN "right" ELSE "left"
        hardMax == Max(minW, maxW)
        found == tiersFind(hardMax)
        width == IF found # 0 THEN found ELSE Max(minW, Min(hardMax, 160))
    IN  [placement |-> placement, width |-> Max(120, Min(width, maxW))]

computePlacementInfo(p) ==
    LET maxW == p.win.maxW
        leftAvail == leftAvailOf(p)
        rightAvail == rightAvailOf(p)
        placement == IF rightAvail > leftAvail THEN "right" ELSE "left"
        avail == IF placement = "right" THEN rightAvail ELSE leftAvail
        hardMax == Max(minW, Min(maxW, avail))
        found == tiersFind(hardMax)
        width == IF found # 0 THEN found ELSE Max(minW, Min(hardMax, 160))
        \* the other side, lines 1657-1667
        hardMaxRight == Max(minW, Min(maxW, rightAvail))
        hardMaxLeft == Max(minW, Min(maxW, leftAvail))
        foundRight == tiersFind(hardMaxRight)
        foundLeft == tiersFind(hardMaxLeft)
        switched ==
            IF width < minW /\ placement = "left" /\ rightAvail > leftAvail
            THEN [placement |-> "right",
                  width |-> IF foundRight # 0 THEN foundRight
                            ELSE Max(120, Min(hardMaxRight, minW))]
            ELSE IF width < minW /\ placement = "right" /\ leftAvail >= rightAvail
            THEN [placement |-> "left",
                  width |-> IF foundLeft # 0 THEN foundLeft
                            ELSE Max(120, Min(hardMaxLeft, minW))]
            ELSE [placement |-> placement, width |-> width]
    IN  [placement |-> switched.placement,
         width |-> Max(120, Min(switched.width, maxW))]

\* ------------------------------------------------------- text truncation
\* A text is a sequence of UTF-16 code units: a letter, a blank, a high
\* surrogate, a low surrogate; the ellipsis is one more unit.
Letter == "a"
Blank == " "
HighSurrogate == "H"
LowSurrogate == "L"
ell == "..."
CodeUnits == {Letter, Blank, HighSurrogate, LowSurrogate}

\* String(text).replace(/\s+/g, ' ').trim() of line 1702
RECURSIVE collapseBlanks(_)
collapseBlanks(text) ==
    IF Len(text) < 2 THEN text
    ELSE IF text[1] = Blank /\ text[2] = Blank THEN collapseBlanks(Tail(text))
    ELSE <<text[1]>> \o collapseBlanks(Tail(text))

RECURSIVE trimEnd(_)
trimEnd(text) ==
    IF text # << >> /\ text[Len(text)] = Blank
    THEN trimEnd(SubSeq(text, 1, Len(text) - 1))
    ELSE text

RECURSIVE trimStart(_)
trimStart(text) ==
    IF text # << >> /\ text[1] = Blank THEN trimStart(Tail(text)) ELSE text

normalised(text) == trimEnd(trimStart(collapseBlanks(text)))

\* _safeSlice of lines 1740-1754; the variant before it slices without
\* looking at the last code unit
safeSliceUnchecked(text, end) ==
    IF end >= Len(text) THEN text
    ELSE IF end <= 0 THEN << >>
    ELSE SubSeq(text, 1, end)

safeSlice(text, end) ==
    IF end >= Len(text) THEN text
    ELSE IF end <= 0 THEN << >>
    ELSE IF text[end] = HighSurrogate THEN SubSeq(text, 1, end - 1)
    ELSE SubSeq(text, 1, end)

\* The browser's layout of measureEl (lines 355-378): a letter, a blank and
\* the replacement glyph of a lone surrogate are one cell of GlyphW px wide,
\* the glyph of a surrogate pair is two cells wide; a line is measuredLineH
\* px high and the element has 10 px of padding above and below.
GlyphW == 120
measuredLineH == 18
measuredPadY == 10
glyphs(text) == Len(text)

offsetHeight(text, width) ==
    LET perLine == Max(1, width \div GlyphW)
        lines == (glyphs(text) + perLine - 1) \div perLine
    IN  lines * measuredLineH + 2 * measuredPadY

\* --timeline-tooltip-lh under each theme of the page, and the fallback of
\* --timeline-tooltip-pad-y (line 1692)
ThemeLineH == <<18, 14>>
\* the page alternates between its two themes
themeOf(p) == 1 + (p.themeChanges % 2)
padY == 10
maxHOf(lineH) == 5 * lineH + 2 * padY

\* the loop of lines 1714-1722
RECURSIVE searchPrefix(_, _, _, _, _, _)
searchPrefix(raw, lo, hi, ans, width, maxH) ==
    IF lo > hi THEN ans
    ELSE LET mid == (lo + hi) \div 2
             slice == safeSlice(raw, mid)
             h == offsetHeight(trimEnd(slice) \o <<ell>>, width)
         IN  IF h <= maxH THEN searchPrefix(raw, mid + 1, hi, mid, width, maxH)
             ELSE searchPrefix(raw, lo, mid - 1, ans, width, maxH)

\* lines 1686-1730 of truncateToFiveLines: the result for a text that is
\* not in the cache
truncatedLayout(text, targetWidth, lineH) ==
    LET maxH == maxHOf(lineH)
        raw == normalised(text)
        h == offsetHeight(raw, targetWidth)
        ans == searchPrefix(raw, 0, Len(raw), 0, targetWidth, maxH)
        out == IF ans >= Len(raw) THEN raw ELSE trimEnd(safeSlice(raw, ans)) \o <<ell>>
    IN  IF h <= maxH THEN [text |-> raw, height |-> h]
        ELSE [text |-> out, height |-> Min(offsetHeight(out, targetWidth), maxH)]

MAX_CACHE_SIZE == 100

\* _addToTruncateCache of lines 1759-1769 (a Map keeps insertion order);
\* the variant before it sets without evicting
addToTruncateCacheUnbounded(cache, entry) == Append(cache, entry)

addToTruncateCache(cache, entry) ==
    Append(IF Len(cache) >= MAX_CACHE_SIZE THEN Tail(cache) ELSE cache, entry)

cacheIndex(cache, key) ==
    IF \E i \in 1..Len(cache) : cache[i].key = key
    THEN CHOOSE i \in 1..Len(cache) : cache[i].key = key
    ELSE 0

\* truncateToFiveLines(text, targetWidth, true) of lines 1675-1734: the
\* cache after the call, the result, and whether it was a cache hit.  An
\* entry remembers how many theme changes the page had seen when it was
\* stored.
truncateToFiveLines(t, p, text, targetWidth) ==
    LET key == <<text, targetWidth>>
        at == cacheIndex(t.truncateCache, key)
        fresh == truncatedLayout(text, targetWidth, t.lineH)
    IN  IF ~attached(t) THEN [cache |-> t.truncateCache, hit |-> FALSE,
                              storedAt |-> p.themeChanges,
                              result |-> [text |-> text, height |-> 0]]
        ELSE IF at # 0 THEN [cache |-> t.truncateCache, hit |-> TRUE,
                             storedAt |-> t.truncateCache[at].storedAt,
                             result |-> t.truncateCache[at].value]
        ELSE [cache |-> addToTruncateCache(t.truncateCache,
                            [key |-> key, value |-> fresh, storedAt |-> p.themeChanges]),
              hit |-> FALSE, storedAt |-> p.themeChanges, result |-> fresh]

\* onThemeChange, lines 971-980: the work is put off to the next frame
onThemeChange(t) == [t EXCEPT !.themeRaf = TRUE]

\* the frame callback of lines 973-979: cacheTooltipConfig and clear
themeFrame(t, p) ==
    [t EXCEPT !.themeRaf = FALSE,
              !.lineH = ThemeLineH[themeOf(p)],
              !.truncateCache = << >>]

NoLayout == [text |-> << >>, height |-> 0]

NoTip == [updateTimer |-> FALSE, hideTimer |-> FALSE, visible |-> FALSE,
          placement |-> "none", width |-> 0,
          layout |-> NoLayout, hit |-> FALSE, storedAt |-> 0]

\* showTooltipForDot, lines 1130-1139: the 80 ms timeout is (re)armed
showTooltipForDot(t) ==
    IF ~attached(t) THEN t ELSE [t EXCEPT !.tip.updateTimer = TRUE]

\* _showTooltipImmediate, lines 1144-1164 and the display that follows
showTooltipImmediate(t, p) ==
    IF ~attached(t) THEN t
    ELSE LET info == computePlacementInfo(p)
             layout == truncateToFiveLines(t, p, p.win.label, info.width)
         IN  [t EXCEPT !.truncateCache = layout.cache,
                       !.tip.hideTimer = FALSE,
                       !.tip.visible = TRUE,
                       !.tip.placement = info.placement,
                       !.tip.width = info.width,
                       !.tip.layout = layout.result,
                       !.tip.hit = layout.hit,
                       !.tip.storedAt = layout.storedAt]

\* hideTooltip(), lines 1268-1286
hideTooltip(t) ==
    IF ~attached(t) THEN t
    ELSE [t EXCEPT !.tip.updateTimer = FALSE, !.tip.hideTimer = TRUE]

\* doHide, lines 1274-1280
doHide(t) == [t EXCEPT !.tip.visible = FALSE, !.tip.hideTimer = FALSE]

\* ------------------------------------------- un-star from the starred list
NoUnstar == [on |-> FALSE, index |-> 0, began |-> 0]

\* the click handler of lines 2213-2258 after StorageAdapter.remove has
\* answered (line 2233), for an entry of this page: lines 2236-2247
unstarResumed(t, index) ==
    LET t1 == [t EXCEPT !.starredIndexes = @ \ {index}, !.unstar = NoUnstar]
    IN  IF index >= Len(t.markers) THEN t1
        ELSE [t1 EXCEPT !.starred = @ \ {t.markers[index + 1].id},
                        !.markers[index + 1].starred = FALSE,
                        !.markers[index + 1].dotElement.starred = FALSE]

\* the same handler when StorageAdapter.remove rejects: control goes to
\* the catch of lines 2253-2255 (the variant before it updates the page's
\* state before it awaits the store)
unstarRejectedAfterUpdate(t, index) == unstarResumed(t, index)

unstarRejected(t, index) == [t EXCEPT !.unstar = NoUnstar]

\* ------------------------------------------------------- store failures
\* loadStars, lines 1978-2000: both sets are cleared before the try; a
\* rejected getAllByPrefix goes to the catch of lines 1997-1999
loadStars(t, data, url, rejected) ==
    [t EXCEPT !.starred = {},
              !.starredIndexes = IF rejected THEN {} ELSE loadedIndexes(data, url)]

\* getNavigateData when its get (line 2549) or its remove (line 2551)
\* rejects: the catch of lines 2554-2556 and return null, so the
\* continuation of line 584 does nothing
navRejected(t, r) == [t EXCEPT !.navReaders = RemoveAt(@, r)]

\* --------------------------------------------------------- debouncing
DEBOUNCE_DELAY == 120

\* a call of the function debounce returns, lines 1023-1026: clearTimeout
\* and a new setTimeout of the whole delay; debounceLeft is the time left
\* on the pending timeout (the variant before it keeps a pending timeout)
debouncedKeepsPending(t) ==
    IF t.debounceTimer THEN t
    ELSE [t EXCEPT !.debounceTimer = TRUE, !.debounceLeft = DEBOUNCE_DELAY]

debounced(t) == [t EXCEPT !.debounceTimer = TRUE, !.debounceLeft = DEBOUNCE_DELAY]

\* ------------------------------------------------ marker model builder
\* this.markersVersion++, line 570 (the variant before it leaves the
\* generation as it is)
bumpVersionSkipped(t) == t

bumpVersion(t) == [t EXCEPT !.markersVersion = @ + 1]

\* the starred flag a rebuilt marker ends with: false at line 554, true
\* when its index is in starredIndexes (lines 562-565); the variant before
\* it reconciles by the marker's id
rebuiltStarredById(t, id, index) == id \in t.starred

rebuiltStarred(t, id, index) == index \in t.starredIndexes

\* contentSpan of lines 526-530 (the variant before it leaves out the
\* guard of lines 528-530)
contentSpanUnguarded(N, firstTop, lastTop) == lastTop - firstTop

contentSpanOf(N, firstTop, lastTop) ==
    IF N < 2 \/ lastTop - firstTop <= 0 THEN 1 ELSE lastTop - firstTop

recalculateAndRenderMarkers(t, p) ==
    LET t0 == [t EXCEPT !.visibleRange = [start |-> 0, end |-> -1]]
    IN  IF ~attached(t) THEN t
        ELSE IF p.present = {} THEN [t0 EXCEPT !.zeroTurnsTimer = TRUE]
        ELSE
        LET userTurnElements == SortByTop(p, p.present)
            N == Len(userTurnElements)
            firstTop == RectTop(p, userTurnElements[1])
            lastTop == RectTop(p, userTurnElements[N])
            contentSpan == contentSpanOf(N, firstTop, lastTop)
            markers == [i \in 1..N |->
                LET el == userTurnElements[i]
                    base == Clamp(0, RectTop(p, el) - firstTop, contentSpan)
                IN  [id |-> generateTurnId(p.nativeIds, el, i - 1),
                     element |-> el,
                     base |-> base,
                     n |-> [num |-> base, den |-> contentSpan],
                     dotElement |-> NoDot,
                     starred |-> rebuiltStarred(t, generateTurnId(p.nativeIds, el, i - 1), i - 1)]]
            t1 == bumpVersion([t0 EXCEPT
                     !.zeroTurnsTimer = FALSE,
                     !.trackDots = {},
                     !.contentSpanPx = contentSpan,
                     !.markers = markers,
                     !.starred = @ \cup {markers[i].id : i \in {j \in 1..N : (j - 1) \in t.starredIndexes}}])
            t2 == updateTimelineGeometry(t1, p)
            t3 == IF t2.activeTurnId = NoId THEN [t2 EXCEPT !.activeTurnId = markers[N].id] ELSE t2
            t4 == syncTimelineTrackToMain(t3, p)
            t5 == updateVirtualRangeAndRender(t4, p)
            t6 == scheduleScrollSync(updateActiveDotUI(t5))
        IN  getNavigateData(t6)

\* ------------------------------------------------------- slider drag
sliderMaxTop(p) ==
    LET railLen == Max(120, Min(240, (9 * p.barH) \div 20))
        handleH == 22
    IN  Max(0, railLen - handleH)

handleSliderDrag(t, p, top) ==
    IF ~t.sliderDragging \/ ~attached(t) THEN t
    ELSE LET maxTop == sliderMaxTop(p)
             range == Max(1, t.contentHeight - p.barH)
             wanted == IF maxTop > 0 THEN RoundDiv(top * range, maxTop) ELSE 0
             \* the track keeps its scroll offset within its scrollable range
             t1 == [t EXCEPT !.trackScrollTop =
                       Clamp(0, wanted, Max(0, t.contentHeight - p.barH))]
         IN  updateSlider(updateVirtualRangeAndRender(t1, p), p)

\* ------------------------------------------------------------ teardown
\* the previous instance of the page, as far as its destroy() reads it
NoPrior == [ui |-> NoUi, torn |-> 0]

\* destroy(), lines 1877-1975, on the instance: the timers and frames it
\* clears (lines 1924-1934) and the references it drops (lines 1953-1974).
\* The debounce timer lives in the closure of debounce() (line 1022), the
\* initial-render timeout of line 253 and the animation frames of
\* smoothScrollTo keep no handle, and the pointerup listener of line 840 is
\* not removed: destroy() leaves all four as they are.
destroy(t) ==
    [t EXCEPT !.scrollRafId = FALSE,
              !.scrollFrames = IF t.scrollRafId THEN @ - 1 ELSE @,
              !.activeChangeTimer = -1,
              !.zeroTurnsTimer = FALSE,
              !.ui = NoUi,
              !.markers = << >>,
              !.activeTurnId = NoId,
              !.pendingActiveId = NoId,
              !.torn = Min(MaxDestroys, @ + 1)]

\* TimelineUtils.removeElementSafe(ref) seen from the place of the document
\* that holds docElement: the element leaves the document when ref is it
removeElementSafe(docElement, ref) ==
    IF ref # NoElement /\ docElement = ref THEN NoElement ELSE docElement

\* destroy() on the document, lines 1936-1951: the bar the instance refers
\* to, the slider it refers to, and then whatever .timeline-left-slider
\* the document still holds (lines 1946-1950)
destroyDom(p, ui) ==
    LET slider == removeElementSafe(p.dom.slider, ui.slider)
        straySlider == slider
    IN  [p EXCEPT !.dom = [timelineBar |-> removeElementSafe(@.timelineBar, ui.timelineBar),
                           slider |-> removeElementSafe(slider, straySlider)]]

\* injectTimelineUI, lines 296-341: an element the document already holds
\* is taken over, a missing one is created
injectTimelineUI(p, instance) ==
    [timelineBar |-> IF p.dom.timelineBar # NoElement THEN p.dom.timelineBar ELSE instance,
     slider |-> IF p.dom.slider # NoElement THEN p.dom.slider ELSE instance]

\* no timer, frame or listener of the instance is outstanding
quiescent(t) ==
    /\ ~t.debounceTimer /\ ~t.initialRenderTimer /\ ~t.zeroTurnsTimer
    /\ t.activeChangeTimer = -1 /\ ~t.scrollRafId /\ ~t.scrollAnim.on
    /\ ~t.sliderDragging

\* ------------------------------------------------------ key-value store
ThisUrl == <<"p">>

\* keys another browsing context may write: the star records of this page
\* for the first two indexes and for an index no marker has, a star record
\* of another page, and a key of this page's prefix that carries no index
ExternalKeyIds == 0..4

WriteKinds == {"set", "remove"}

ExternalKey(k) ==
    IF k <= 1 THEN starKey(ThisUrl, k)
    ELSE IF k = 2 THEN starKey(ThisUrl, MaxN)
    ELSE IF k = 3 THEN starKey(<<"q">>, 1)
    ELSE starPrefix(ThisUrl) \o <<"x">>

\* the store applies one write: set stores the record, remove deletes it
storeApply(data, op) ==
    IF op.op = "set" THEN data \cup {op.key} ELSE data \ {op.key}

\* the change event of a write: newValue is present after a set; a remove
\* of an absent key changes nothing and raises no event
storeEvent(data, op) ==
    IF op.op = "remove" /\ op.key \notin data THEN << >>
    ELSE <<[key |-> op.key, hasNewValue |-> (op.op = "set")]>>

\* ---------------------------------------------------------- observation
\* obs is not program state: toggles and writes count the star clicks and
\* (lastToggle is the id of the last star click); loadRejected tells that
\* the read of loadStars failed and unstarRejected that the remove of an
\* un-star action has failed;
\* the writes of other contexts so far, delivered counts the change events
\* the listener has handled and note is the last of them, and trial follows
\* the first two toggles of a run when they are of the same marker;
\* computed tells that computeActiveByScroll has run since the scroll
\* position and the page content last changed; fault tells that a callback
\* has thrown a TypeError; retries counts, up to MaxRetries, the firings of
\* the zero-turns timer that found no turn since the page last changed;
\* buffered counts the candidates the scroll-sync frames have buffered on
\* the pending active-change timer (up to 2), trailing is set when the
\* timer's firing changed the active marker;
\* drag follows a drag of the slider handle: 1 once the handle has moved
\* the track, 2 once a scroll-sync frame has run during the drag, 3 once
\* the handle is released after that, 4 once a scroll-sync frame has run
\* after the release;
\* asyncWrite is the last write to marker state by
\* code resuming after an await, with the generation at which its handler
\* began and the one at which it wrote; nav follows the handoff key last
\* stored: the page it was stored for, how many getNavigateData calls
\* obtained it and how many auto-scrolls it started.
NoAsyncWrite == [wrote |-> FALSE, began |-> 0, applied |-> 0]

NoHandoff == [for |-> << >>, taken |-> 0, scrolls |-> 0]

NoTrial == [phase |-> 0, id |-> NoId, starred |-> {}, indexes |-> {},
            flag |-> FALSE, data |-> {}, issued |-> << >>]

\* --------------------------------------------------- container finder
\* src/js/container-finder.js.  The first message's ancestors are a chain:
\* level 0 is the first message, level k its k-th ancestor, dom.body the
\* level of document.body, the document element one above it;
\* dom.overflowing holds the levels whose computed overflow or overflowY is
\* auto or scroll and whose scrollHeight exceeds clientHeight.
NoContainer == -1

maxDepth == 15

fallbackDepth == 10

DefaultOptions == [maxDepth |-> maxDepth, fallbackDepth |-> fallbackDepth]

DefaultDom == [body |-> 2, overflowing |-> {1}]

parentElement(dom, level) ==
    IF level # NoContainer /\ level < dom.body + 1 THEN level + 1 ELSE NoContainer

\* the while loop of lines 35-53
RECURSIVE scrollableAbove(_, _, _, _)
scrollableAbove(dom, container, depth, options) ==
    IF container = NoContainer \/ container = dom.body \/ depth >= options.maxDepth
    THEN NoContainer
    ELSE LET parent == parentElement(dom, container)
         IN  IF parent = NoContainer THEN NoContainer
             ELSE IF parent \in dom.overflowing THEN parent
             ELSE scrollableAbove(dom, parent, depth + 1, options)

\* the for loop of lines 62-68
RECURSIVE fallbackAbove(_, _, _, _)
fallbackAbove(dom, fallbackContainer, i, options) ==
    IF /\ i < options.fallbackDepth
       /\ fallbackContainer # NoContainer
       /\ parentElement(dom, fallbackContainer) # NoContainer
    THEN LET parent == parentElement(dom, fallbackContainer)
         IN  IF parent = dom.body THEN parent
             ELSE fallbackAbove(dom, parent, i + 1, options)
    ELSE fallbackContainer

\* ContainerFinder.findConversationContainer, lines 22-71; firstMessage is
\* NoElement for null
findConversationContainer(firstMessage, dom, options) ==
    IF firstMessage = NoElement THEN NoContainer
    ELSE LET scrollableContainer == scrollableAbove(dom, 0, 0, options)
             fallbackContainer == fallbackAbove(dom, 0, 0, options)
         IN  IF scrollableContainer # NoContainer THEN scrollableContainer
             ELSE IF fallbackContainer # NoContainer THEN fallbackContainer
             ELSE parentElement(dom, 0)

\* document.querySelector(selector), lines 638-639: the first turn of the
\* page, NoElement when there is none
firstTurn(p) ==
    IF p.present = {} THEN NoElement
    ELSE CHOOSE el \in p.present : \A other \in p.present : el <= other

\* ------------------------------------------------------------- initial
InitTm(data) ==
    [markers |-> << >>, markersVersion |-> 0,
     \* lastActiveChangeTime starts at 0 (line 169): the interval has passed
     activeTurnId |-> NoId, elapsed |-> MIN_ACTIVE_CHANGE_INTERVAL,
     pendingActiveId |-> NoId,
     activeChangeTimer |-> -1, scrollRafId |-> FALSE, scrollFrames |-> 0,
     zeroTurnsTimer |-> FALSE, debounceTimer |-> FALSE, initialRenderTimer |-> TRUE,
     debounceLeft |-> 0,
     contentHeight |-> 0, yPositions |-> << >>,
     visibleRange |-> [start |-> 0, end |-> -1],
     contentSpanPx |-> 1, sliderDragging |-> FALSE, sliderAlwaysVisible |-> FALSE,
     starred |-> {}, starredIndexes |-> loadedIndexes(data, ThisUrl),
     trackScrollTop |-> 0, trackDots |-> {}, lastPass |-> NoPass,
     tip |-> NoTip,
     resizeIdleTimer |-> FALSE, resizeIdleRICId |-> FALSE, minGapIdle |-> 0,
     \* the cache of truncation results, tooltipConfigCache.lineH, the
     \* pending frame of onThemeChange
     truncateCache |-> << >>, lineH |-> ThemeLineH[1], themeRaf |-> FALSE,
     \* the first instance of the page: injectTimelineUI created its elements
     instance |-> 1, ui |-> [timelineBar |-> 1, slider |-> 1],
     \* the await init() is suspended at: "element", "stars" or "none"
     initAwait |-> "none",
     \* findCriticalElements, line 274, on the default page
     conversationContainer |-> findConversationContainer(1, DefaultDom, DefaultOptions),
     scrollAnim |-> NoAnim, torn |-> 0, prior |-> NoPrior,
     unstar |-> NoUnstar, navReaders |-> << >>]

\* window.innerWidth, the hovered dot's rectangle (left and right edge) and
\* --timeline-tooltip-max: a wide window with the bar at its right edge
DefaultWindow == [innerWidth |-> 1280, dotLeft |-> 1240, dotRight |-> 1252, maxW |-> 288,
                  label |-> <<Letter>>]

InitPage(present, tops, barH, nativeIds, pad, gap) ==
    [present |-> present, tops |-> tops, scrollTop |-> 0, barH |-> barH,
     clientHeight |-> CHOOSE h \in ClientHeights : TRUE,
     scrollHeight |-> CHOOSE h \in ScrollHeights : TRUE,
     trackPadding |-> pad, minGap |-> gap,
     nativeIds |-> nativeIds, url |-> ThisUrl,
     win |-> DefaultWindow, themeChanges |-> 0,
     ancestors |-> DefaultDom,
     dom |-> [timelineBar |-> 1, slider |-> 1]]

InitObs == [computed |-> FALSE, toggles |-> 0, lastToggle |-> NoId,
            loadRejected |-> FALSE, unstarRejected |-> FALSE, writes |-> 0, delivered |-> 0,
            fault |-> FALSE, retries |-> 0, drag |-> 0,
            buffered |-> 0, trailing |-> FALSE, asyncWrite |-> NoAsyncWrite, nav |-> NoHandoff,
            note |-> [key |-> << >>, hasNewValue |-> FALSE],
            trial |-> NoTrial]

InitWith(layouts, barHeights, nativeChoices, stored) ==
    /\ \E tops \in layouts, barH \in barHeights, nativeIds \in nativeChoices :
          page = InitPage(Elements, tops, barH, nativeIds, 12, 80)
    /\ \E data \in stored : kv = [data |-> data, ops |-> << >>, notes |-> << >>, nav |-> NoValue]
    /\ tm = InitTm(kv.data)
    /\ obs = InitObs

\* virtualization: a short and a tall bar, no stars
Init == InitWith({Spread}, BarHeights, {FALSE}, {{}})

\* ------------------------------------------------------------- actions
\* a rebuild bumps the generation; the model stops rebuilding at MaxVersion
CanRebuild == tm.markersVersion < MaxVersion

\* the delayed first render of init(), lines 253-256
InitialRender ==
    /\ tm.initialRenderTimer
    /\ CanRebuild
    /\ tm' = scheduleScrollSync(
                recalculateAndRenderMarkers([tm EXCEPT !.initialRenderTimer = FALSE], page))
    /\ obs' = [obs EXCEPT !.computed = FALSE]
    /\ UNCHANGED <<page, kv>>

\* the conversation is an append-only list that a branch switch truncates:
\* the page holds the first k turns
PageContents == {1..k : k \in 0..MaxN}

\* the host page adds or removes turns; the MutationObserver callback
\* (lines 598-602) re-arms the debounce timer
MutateTo(contents) ==
    /\ \E present \in contents :
          /\ present # page.present
          /\ page' = [page EXCEPT !.present = present]
    /\ tm' = IF attached(tm) THEN debounced(tm) ELSE tm
    /\ obs' = [obs EXCEPT !.computed = FALSE, !.retries = 0]
    /\ UNCHANGED kv

\* the debounce timer fires: debouncedRecalculateAndRender
DebouncedRebuild ==
    /\ tm.debounceTimer
    /\ CanRebuild
    /\ tm' = recalculateAndRenderMarkers(
                [tm EXCEPT !.debounceTimer = FALSE, !.debounceLeft = 0], page)
    /\ obs' = [obs EXCEPT !.computed = FALSE]
    /\ UNCHANGED <<page, kv>>

\* the retry timer of an empty rebuild fires, lines 503-506
ZeroTurnsRetry ==
    /\ tm.zeroTurnsTimer
    /\ CanRebuild
    /\ tm' = recalculateAndRenderMarkers([tm EXCEPT !.zeroTurnsTimer = FALSE], page)
    /\ obs' = [obs EXCEPT !.computed = FALSE,
                          !.retries = IF page.present = {} THEN Min(MaxRetries, @ + 1) ELSE 0]
    /\ UNCHANGED <<page, kv>>

\* the bar changes height; ResizeObserver / window resize handler
ResizeTo(heights) ==
    /\ \E h \in heights :
          LET p == [page EXCEPT !.barH = h]
              t1 == updateTimelineGeometry(tm, p)
              t2 == syncTimelineTrackToMain(t1, p)
          IN  /\ h # page.barH
              /\ page' = p
              /\ tm' = updateVirtualRangeAndRender(t2, p)
    /\ UNCHANGED <<kv, obs>>

Resize == ResizeTo(BarHeights)

\* the user scrolls the conversation; onScroll schedules a sync frame
ScrollTo(stops) ==
    /\ \E s \in stops :
          /\ s # page.scrollTop
          /\ page' = [page EXCEPT !.scrollTop = s]
    /\ tm' = IF attached(tm) THEN scheduleScrollSync(tm) ELSE tm
    /\ obs' = [obs EXCEPT !.computed = FALSE]
    /\ UNCHANGED kv

ScrollSyncFrame ==
    /\ tm.scrollRafId
    /\ tm' = scrollSyncFrame(tm, page)
    /\ obs' = [obs EXCEPT !.computed = Len(tm.markers) > 0,
                          !.buffered =
                              IF tm'.pendingActiveId = tm.pendingActiveId THEN @
                              ELSE IF tm.activeChangeTimer = -1 THEN 1 ELSE 2,
                          !.trailing =
                              IF tm'.pendingActiveId = tm.pendingActiveId THEN @ ELSE FALSE,
                          !.drag = IF @ = 1 /\ tm.sliderDragging THEN 2
                                   ELSE IF @ = 3 /\ ~tm.sliderDragging THEN 4
                                   ELSE @]
    /\ UNCHANGED <<page, kv>>

\* pointerdown on the slider handle, lines 829-841
SliderDown ==
    /\ ~tm.sliderDragging
    /\ tm' = updateSlider([tm EXCEPT !.sliderDragging = TRUE], page)
    /\ obs' = [obs EXCEPT !.drag = 0]
    /\ UNCHANGED <<page, kv>>

\* pointermove while dragging: the handle is at top within [0, maxTop]
DragTo(tops) ==
    /\ tm.sliderDragging
    /\ \E top \in tops :
          /\ top <= sliderMaxTop(page)
          /\ tm' = handleSliderDrag(tm, page, top)
    /\ obs' = [obs EXCEPT !.drag = IF @ = 0 /\ tm'.trackScrollTop # tm.trackScrollTop
                                   THEN 1 ELSE @]
    /\ UNCHANGED <<page, kv>>

\* pointerup: endSliderDrag
SliderUp ==
    /\ tm.sliderDragging
    /\ tm' = [tm EXCEPT !.sliderDragging = FALSE]
    /\ obs' = [obs EXCEPT !.drag = IF @ = 2 THEN 3 ELSE @]
    /\ UNCHANGED <<page, kv>>

\* TickMs milliseconds pass.  elapsed is performance.now() minus
\* lastActiveChangeTime, kept up to MIN_ACTIVE_CHANGE_INTERVAL (the code
\* only compares it with that interval); activeChangeTimer is the time
\* left on the trailing timer, -1 when there is none.
Tick ==
    /\ tm.elapsed < MIN_ACTIVE_CHANGE_INTERVAL \/ tm.activeChangeTimer > 0
    /\ tm' = [tm EXCEPT
                !.elapsed = Min(MIN_ACTIVE_CHANGE_INTERVAL, @ + TickMs),
                !.activeChangeTimer = IF @ > 0 THEN Max(0, @ - TickMs) ELSE @]
    /\ UNCHANGED <<page, kv, obs>>

ActiveChangeTimer ==
    /\ tm.activeChangeTimer = 0
    /\ tm' = activeChangeTimerFired(tm)
    /\ obs' = [obs EXCEPT !.trailing = tm'.activeTurnId # tm.activeTurnId]
    /\ UNCHANGED <<page, kv>>

\* -------------------------------------------------- lifecycle actions
\* a click on a rendered dot, lines 702-714: smoothScrollTo its element
ClickDot ==
    /\ attached(tm)
    /\ ~tm.scrollAnim.on
    /\ \E i \in 1..Len(tm.markers) :
          /\ tm.markers[i].dotElement.on
          /\ tm' = smoothScrollTo(tm, page, tm.markers[i].element)
    /\ UNCHANGED <<page, kv, obs>>

\* the time since the first frame at which a later frame runs
FrameTimes == {300, 600}

\* an animation frame of smoothScrollTo, lines 992-1004.  The first frame
\* has timeElapsed 0.  After destroy() scrollContainer is null and the
\* assignment of line 997 throws.
ScrollAnimFrame ==
    /\ tm.scrollAnim.on
    /\ \E later \in FrameTimes :
          LET a == tm.scrollAnim
              timeElapsed == IF a.frame = 0 THEN 0 ELSE later
              p == setScrollTop(page, animationOffset(a, timeElapsed))
              t1 == [tm EXCEPT !.scrollAnim =
                        IF timeElapsed < duration THEN [a EXCEPT !.frame = 1] ELSE NoAnim]
          IN  IF ~attached(tm)
              THEN /\ tm' = [tm EXCEPT !.scrollAnim = NoAnim]
                   /\ page' = page
                   /\ obs' = [obs EXCEPT !.fault = TRUE]
              ELSE /\ page' = p
                   /\ tm' = IF p.scrollTop # page.scrollTop THEN scheduleScrollSync(t1) ELSE t1
                   /\ obs' = IF p.scrollTop # page.scrollTop
                             THEN [obs EXCEPT !.computed = FALSE] ELSE obs
    /\ UNCHANGED kv

\* the host tears the instance down
Destroy ==
    /\ tm.torn < MaxDestroys
    /\ tm' = destroy(tm)
    /\ page' = destroyDom(page, tm.ui)
    /\ UNCHANGED <<kv, obs>>

\* the host creates and initialises a new instance on the page, once the
\* torn-down one has nothing outstanding
Reinit ==
    /\ ~attached(tm)
    /\ quiescent(tm)
    /\ tm.instance < MaxInstances
    /\ LET ui == injectTimelineUI(page, tm.instance + 1)
       IN  /\ tm' = [InitTm(kv.data) EXCEPT !.instance = tm.instance + 1,
                                            !.ui = ui,
                                            !.prior = [ui |-> tm.ui, torn |-> tm.torn]]
           /\ page' = [page EXCEPT !.dom = ui]
    /\ obs' = [obs EXCEPT !.computed = FALSE]
    /\ UNCHANGED kv

\* the host calls destroy() of the previous instance again
PriorDestroy ==
    /\ tm.prior.torn > 0
    /\ tm.prior.torn < MaxDestroys
    /\ tm' = [tm EXCEPT !.prior = [ui |-> NoUi, torn |-> tm.prior.torn + 1]]
    /\ page' = destroyDom(page, tm.prior.ui)
    /\ UNCHANGED <<kv, obs>>

\* ------------------------------------------------------- star actions
QueuesEmpty == kv.ops = << >> /\ kv.notes = << >>

\* the trial after a toggle of id that took effect on the state t, p
trialAfterToggle(t, p, id) ==
    LET tr == obs.trial
        op == toggleStarOp(t, p, id)
    IN  IF obs.toggles = 0 /\ QueuesEmpty
        THEN [phase |-> 1, id |-> id, starred |-> t.starred,
              indexes |-> t.starredIndexes,
              flag |-> t.markers[markerIndex(t, id) + 1].starred,
              data |-> kv.data, issued |-> <<op>>]
        ELSE IF tr.phase = 1 /\ tr.id = id
        THEN [tr EXCEPT !.phase = 2, !.issued = Append(@, op)]
        ELSE NoTrial

\* the ids a tooltip's star can carry (dataset.targetTurnId, line 1183):
\* the id of a current marker, or of a marker of an earlier generation
\* when the tooltip was built before a rebuild
TooltipIds(p) == {generateTurnId(p.nativeIds, el, el - 1) : el \in Elements}

\* a click on the star of the tooltip of a rendered marker, line 1198:
\* toggleStar, which hands one write to the store without awaiting it
ToggleStar ==
    /\ Len(kv.ops) < MaxQueue
    /\ obs.toggles < MaxToggles
    /\ \E id \in TooltipIds(page) :
          /\ tm' = toggleStar(tm, id)
          /\ kv' = [kv EXCEPT !.ops = @ \o toggleStarIssued(tm, page, id)]
          /\ obs' = [obs EXCEPT !.toggles = @ + 1,
                                !.lastToggle = id,
                                !.trial = IF markerIndex(tm, id) = -1 THEN NoTrial
                                          ELSE trialAfterToggle(tm, page, id)]
    /\ UNCHANGED page

\* the store carries out the oldest write this page issued and queues the
\* change event for the listeners
StoreWrite ==
    /\ kv.ops # << >>
    /\ Len(kv.notes) < MaxQueue
    /\ kv' = [kv EXCEPT !.data = storeApply(kv.data, Head(kv.ops)),
                        !.ops = Tail(kv.ops),
                        !.notes = kv.notes \o storeEvent(kv.data, Head(kv.ops))]
    /\ UNCHANGED <<tm, page, obs>>

\* another browsing context writes a key
ExternalWrite ==
    /\ Len(kv.notes) < MaxQueue
    /\ obs.writes < MaxExternal
    /\ \E k \in ExternalKeyIds, kind \in WriteKinds :
          LET op == [op |-> kind, key |-> ExternalKey(k)]
          IN  /\ storeEvent(kv.data, op) # << >>
              /\ kv' = [kv EXCEPT !.data = storeApply(kv.data, op),
                                  !.notes = @ \o storeEvent(kv.data, op)]
    /\ obs' = [obs EXCEPT !.writes = @ + 1, !.trial = NoTrial]
    /\ UNCHANGED <<tm, page>>

\* the store delivers the oldest change event to onStorage
StorageChanged ==
    /\ kv.notes # << >>
    /\ tm' = onStorage(tm, page, Head(kv.notes).key, Head(kv.notes).hasNewValue)
    /\ kv' = [kv EXCEPT !.notes = Tail(@)]
    /\ obs' = [obs EXCEPT !.delivered = @ + 1, !.note = Head(kv.notes)]
    /\ UNCHANGED page

\* ----------------------------------------------------- async actions
\* a click on the star of an entry of the starred list (lines 2213-2233):
\* the list shows the stored stars, the entry is one of this page; the
\* handler issues the remove and awaits it.  The button that opens the
\* list is shown after the initial render (lines 257-264).
UnstarClick ==
    /\ attached(tm)
    /\ ~tm.initialRenderTimer
    /\ ~tm.unstar.on
    /\ \E index \in 0..(MaxN - 1) :
          /\ starKey(page.url, index) \in kv.data
          /\ tm' = [tm EXCEPT !.unstar = [on |-> TRUE, index |-> index,
                                          began |-> tm.markersVersion]]
    /\ UNCHANGED <<page, kv, obs>>

\* the store carries out the remove and the handler resumes
UnstarDone ==
    /\ tm.unstar.on
    /\ Len(kv.notes) < MaxQueue
    /\ LET index == tm.unstar.index
           op == [op |-> "remove", key |-> starKey(page.url, index)]
       IN  /\ kv' = [kv EXCEPT !.data = storeApply(kv.data, op),
                               !.notes = @ \o storeEvent(kv.data, op)]
           /\ tm' = unstarResumed(tm, index)
           /\ obs' = [obs EXCEPT !.asyncWrite =
                         [wrote |-> index < Len(tm.markers),
                          began |-> tm.unstar.began,
                          applied |-> tm.markersVersion]]
    /\ UNCHANGED page

\* the pages a handoff key can be stored for: this one and another one
HandoffUrls == {ThisUrl, <<"q">>}

\* another page stores a target index for its destination (lines
\* 2365-2375 running there) while the key is absent
ExternalNavigate ==
    /\ kv.nav = NoValue
    /\ obs.writes < MaxExternal
    /\ \E index \in 0..(MaxN - 1), url \in HandoffUrls :
          /\ kv' = [kv EXCEPT !.nav = index]
          /\ obs' = [obs EXCEPT !.writes = @ + 1,
                                !.nav = [for |-> url, taken |-> 0, scrolls |-> 0]]
    /\ UNCHANGED <<tm, page>>

\* the store answers the get of a getNavigateData call
NavGet ==
    /\ \E r \in 1..Len(tm.navReaders) :
          /\ tm.navReaders[r].stage = "get"
          /\ tm' = navGot(tm, r, kv.nav)
    /\ obs' = IF kv.nav # NoValue THEN [obs EXCEPT !.nav.taken = @ + 1] ELSE obs
    /\ UNCHANGED <<page, kv>>

\* the store carries out the remove of a getNavigateData call
NavRemove ==
    /\ \E r \in 1..Len(tm.navReaders) :
          /\ tm.navReaders[r].stage = "remove"
          /\ tm' = navRemoved(tm, r)
    /\ kv' = [kv EXCEPT !.nav = NoValue]
    /\ UNCHANGED <<page, obs>>

\* the frame requested at line 585 runs
NavFrame ==
    /\ \E r \in 1..Len(tm.navReaders) :
          /\ tm.navReaders[r].stage = "frame"
          /\ tm' = navFrame(tm, page, r)
          /\ obs' = IF tm'.scrollAnim.on /\ tm'.scrollAnim.frame = 0
                                         /\ tm.navReaders[r].value < Len(tm.markers)
                                         /\ attached(tm)
                    THEN [obs EXCEPT !.nav.scrolls = @ + 1] ELSE obs
    /\ UNCHANGED <<page, kv>>

\* ---------------------------------------------------- debounce actions
\* TickMs milliseconds pass on the pending debounce timeout
DebounceTick ==
    /\ tm.debounceTimer
    /\ tm.debounceLeft > 0
    /\ tm' = [tm EXCEPT !.debounceLeft = Max(0, @ - TickMs)]
    /\ UNCHANGED <<page, kv, obs>>

\* the debounce timeout fires when its delay has passed
TimedRebuild == tm.debounceLeft = 0 /\ DebouncedRebuild

\* ------------------------------------------------- store failure actions
\* the store rejects the oldest write toggleStar issued: the catch of
\* saveStarItem (lines 2014-2016) or removeStarItem (lines 2067-2069)
StoreWriteRejected ==
    /\ kv.ops # << >>
    /\ kv' = [kv EXCEPT !.ops = Tail(kv.ops)]
    /\ UNCHANGED <<tm, page, obs>>

\* the store rejects the remove of the un-star handler
UnstarRejected ==
    /\ tm.unstar.on
    /\ tm' = unstarRejected(tm, tm.unstar.index)
    /\ obs' = [obs EXCEPT !.unstarRejected = TRUE]
    /\ UNCHANGED <<page, kv>>

\* the store rejects the set of setNavigateData on the page that hands
\* off (the catch of lines 2540-2542): nothing is stored
NavigateRejected ==
    /\ kv.nav = NoValue
    /\ obs.writes < MaxAttempts
    /\ obs' = [obs EXCEPT !.writes = @ + 1]
    /\ UNCHANGED <<tm, page, kv>>

\* the store rejects the get of a getNavigateData call
NavGetRejected ==
    /\ \E r \in 1..Len(tm.navReaders) :
          /\ tm.navReaders[r].stage = "get"
          /\ tm' = navRejected(tm, r)
    /\ UNCHANGED <<page, kv, obs>>

\* the store rejects the remove of a getNavigateData call
NavRemoveRejected ==
    /\ \E r \in 1..Len(tm.navReaders) :
          /\ tm.navReaders[r].stage = "remove"
          /\ tm' = navRejected(tm, r)
    /\ UNCHANGED <<page, kv, obs>>

\* ------------------------------------------------------ specifications
\* Virtualization engine: rebuilds, resizes, scrolling and slider drags.
\* the page is empty, holds every turn or has lost its last turn
EngineContents == {1..0, 1..(MaxN - 1), 1..MaxN}

DomMutation == MutateTo(EngineContents)

ScrollExtremes == {0, 1200}

Scroll == ScrollTo(ScrollExtremes)

HandleStops == {0, 49, 98}

SliderDrag == DragTo(HandleStops)

Next ==
    \/ InitialRender
    \/ DomMutation
    \/ DebouncedRebuild
    \/ ZeroTurnsRetry
    \/ Resize
    \/ Scroll
    \/ ScrollSyncFrame
    \/ SliderDown
    \/ SliderDrag
    \/ SliderUp

Spec == Init /\ [][Next]_vars

\* Geometry and window computation over every arrangement of turn offsets
\* on a grid, every padding and gap value, and a fine set of handle stops.
InitGeometry ==
    /\ \E tops \in [Elements -> TopGrid], present \in PageContents,
          barH \in BarHeights \cup HiddenBarHeights,
          pad \in PaddingValues, gap \in GapValues :
          page = InitPage(present, tops, barH, FALSE, pad, gap)
    /\ kv = [data |-> {}, ops |-> << >>, notes |-> << >>, nav |-> NoValue]
    /\ tm = InitTm(kv.data)
    /\ obs = InitObs

FineHandleStops == {7 * k : k \in 0..14}

FineSliderDrag == DragTo(FineHandleStops)

NextGeometry ==
    \/ InitialRender
    \/ Resize
    \/ SliderDown
    \/ FineSliderDrag

SpecGeometry == InitGeometry /\ [][NextGeometry]_vars

\* Active-marker tracking: rebuilds, scrolling and the passing of time.
InitActive == InitWith({Spread}, {300}, BOOLEAN, {{}})

ScrollActive == ScrollTo(ScrollStops)

NextActive ==
    \/ InitialRender
    \/ DomMutation
    \/ DebouncedRebuild
    \/ ZeroTurnsRetry
    \/ ScrollActive
    \/ ScrollSyncFrame
    \/ Tick
    \/ ActiveChangeTimer

SpecActive == InitActive /\ [][NextActive]_vars

\* Star toggling: toggles and their store writes, the change events they
\* raise, and rebuilds that keep, drop the first or drop the last turn.
InitStar ==
    InitWith({Spread}, {300}, BOOLEAN, {{}, {starKey(ThisUrl, 1)}})

\* the page keeps every turn, loses its first turn or loses its last turn
StarContents == {1..MaxN, 2..MaxN, 1..(MaxN - 1)}

StarMutation == MutateTo(StarContents)

NextStar ==
    \/ InitialRender
    \/ StarMutation
    \/ DebouncedRebuild
    \/ ToggleStar
    \/ StoreWrite
    \/ StorageChanged

SpecStar == InitStar /\ [][NextStar]_vars

\* Cross-context reconciliation: writes of other browsing contexts and the
\* change events they raise, on pages that start with stored stars.
InitSync ==
    InitWith({Spread}, {300}, {TRUE},
             {{}, {starKey(ThisUrl, 0), starKey(ThisUrl, 1)}})

NextSync ==
    \/ InitialRender
    \/ StarMutation
    \/ DebouncedRebuild
    \/ ExternalWrite
    \/ StorageChanged

SpecSync == InitSync /\ [][NextSync]_vars

\* Lifecycle: rebuilds, clicks on dots and their scroll animation,
\* teardown and one re-initialisation on the same page.
InitLifecycle == InitWith({Spread}, {300}, {FALSE}, {{}})

\* the page holds every turn or has lost its last turn
LifecycleContents == {1..(MaxN - 1), 1..MaxN}

LifecycleMutation == MutateTo(LifecycleContents)

NextLifecycle ==
    \/ InitialRender
    \/ LifecycleMutation
    \/ DebouncedRebuild
    \/ ScrollSyncFrame
    \/ ClickDot
    \/ ScrollAnimFrame
    \/ Destroy
    \/ Reinit
    \/ PriorDestroy

SpecLifecycle == InitLifecycle /\ [][NextLifecycle]_vars

\* Un-starring from the starred list: the awaited remove, rebuilds that
\* happen meanwhile, and the change events.
InitUnstar ==
    InitWith({Spread}, {300}, BOOLEAN,
             {{starKey(ThisUrl, 1)}, {starKey(ThisUrl, 0), starKey(ThisUrl, 1)}})

NextUnstar ==
    \/ InitialRender
    \/ StarMutation
    \/ DebouncedRebuild
    \/ UnstarClick
    \/ UnstarDone
    \/ StorageChanged

SpecUnstar == InitUnstar /\ [][NextUnstar]_vars

\* Navigation handoff: keys stored by other pages, the reads and removes
\* of the rebuilds of this page, and the auto-scroll.
InitHandoff == InitWith({Spread}, {300}, {FALSE}, {{}})

NextHandoff ==
    \/ InitialRender
    \/ LifecycleMutation
    \/ DebouncedRebuild
    \/ ExternalNavigate
    \/ NavGet
    \/ NavRemove
    \/ NavFrame
    \/ ScrollAnimFrame
    \/ ScrollSyncFrame

SpecHandoff == InitHandoff /\ [][NextHandoff]_vars

\* Store failures: every read, write and remove of the store may be
\* rejected, on a page with a star stored before it loaded.
InitFailure ==
    /\ page = InitPage(Elements, Spread, 300, FALSE, 12, 80)
    /\ kv = [data |-> {starKey(ThisUrl, 1)}, ops |-> << >>, notes |-> << >>,
             nav |-> NoValue]
    /\ \E rejected \in BOOLEAN :
          /\ tm = loadStars(InitTm(kv.data), kv.data, ThisUrl, rejected)
          /\ obs = [InitObs EXCEPT !.loadRejected = rejected]

\* the failure specification takes MaxAttempts star clicks and
\* MaxAttempts handoffs
AttemptToggle == obs.toggles < MaxAttempts /\ ToggleStar

AttemptNavigate == obs.writes < MaxAttempts /\ ExternalNavigate

NextFailure ==
    \/ InitialRender
    \/ AttemptToggle
    \/ StoreWrite
    \/ StoreWriteRejected
    \/ UnstarClick
    \/ UnstarDone
    \/ UnstarRejected
    \/ AttemptNavigate
    \/ NavigateRejected
    \/ NavGet
    \/ NavGetRejected
    \/ NavRemove
    \/ NavRemoveRejected
    \/ NavFrame

SpecFailure == InitFailure /\ [][NextFailure]_vars

\* Debouncing: change notifications, the passing of time on the debounce
\* timeout, the rebuilds and the scroll-sync frames they request.  Time
\* passes and a due timeout fires.
NextDebounce ==
    \/ InitialRender
    \/ LifecycleMutation
    \/ DebounceTick
    \/ TimedRebuild
    \/ Scroll
    \/ ScrollSyncFrame

\* TimedRebuild is enabled exactly when the timeout is due and the
\* generation bound allows a rebuild: its weak fairness is written out
\* with that condition
SpecDebounce ==
    /\ InitLifecycle
    /\ [][NextDebounce]_vars
    /\ WF_vars(DebounceTick)
    /\ \/ []<>~(tm.debounceTimer /\ tm.debounceLeft = 0 /\ CanRebuild)
       \/ []<><<TimedRebuild>>_vars

\* Gap relaxation as a function of its inputs: the marker offsets are drawn
\* in halves of the content span (baseN 0, 0.5 or 1 for every marker,
\* whatever the others have), the geometry is computed for them as the
\* rebuild does (line 569) and recomputed by every resize of the bar.
RelaxHeights == {100, 200}
RelaxGaps == {20, 40}
RelaxOffsets == {0, 1, 2}

RelaxMarkers(bases) ==
    [i \in 1..Len(bases) |->
        [id |-> generateTurnId(FALSE, i, i - 1),
         element |-> i,
         base |-> bases[i],
         n |-> [num |-> bases[i], den |-> 2],
         dotElement |-> NoDot,
         starred |-> FALSE]]

InitRelax ==
    /\ \E barH \in RelaxHeights, gap \in RelaxGaps :
          page = InitPage({}, Spread, barH, FALSE, 12, gap)
    /\ kv = [data |-> {}, ops |-> << >>, notes |-> << >>, nav |-> NoValue]
    /\ \E N \in 1..MaxRelax : \E bases \in [1..N -> RelaxOffsets] :
          tm = updateTimelineGeometry(
                  [InitTm(kv.data) EXCEPT !.initialRenderTimer = FALSE,
                                          !.markersVersion = 1,
                                          !.contentSpanPx = 2,
                                          !.markers = RelaxMarkers(bases)], page)
    /\ obs = InitObs

RelaxResize == ResizeTo(RelaxHeights)

NextRelax == RelaxResize

SpecRelax == InitRelax /\ [][NextRelax]_vars

\* Tooltip placement: windows of several widths, the dot anywhere across
\* them, several configured maxima; the pointer enters and leaves the dot.
WindowWidths == {360, 480, 800, 1280}
DotLefts == {20, 200, 300, 460, 760, 1240}
DotWidths == {12}
TooltipMaxima == {150, 250, 288}

InitTooltip ==
    /\ \E vw \in WindowWidths, left \in DotLefts, w \in DotWidths, maxW \in TooltipMaxima :
          /\ left + w <= vw
          /\ page = [InitPage(Elements, Spread, 300, FALSE, 12, 80) EXCEPT
                        !.win = [innerWidth |-> vw, dotLeft |-> left,
                                 dotRight |-> left + w, maxW |-> maxW,
                                 label |-> <<Letter>>]]
    /\ kv = [data |-> {}, ops |-> << >>, notes |-> << >>, nav |-> NoValue]
    /\ tm = [InitTm(kv.data) EXCEPT !.initialRenderTimer = FALSE]
    /\ obs = InitObs

\* mouseover or focusin on a dot (lines 722-725, 739-742)
DotOver ==
    /\ tm' = showTooltipForDot(tm)
    /\ tm' # tm
    /\ UNCHANGED <<page, kv, obs>>

\* the 80 ms timeout of line 1135 fires
TooltipUpdateTimer ==
    /\ tm.tip.updateTimer
    /\ tm' = showTooltipImmediate([tm EXCEPT !.tip.updateTimer = FALSE], page)
    /\ UNCHANGED <<page, kv, obs>>

\* mouseout or focusout of the dot (lines 728-736, 743-746)
DotOut ==
    /\ tm' = hideTooltip(tm)
    /\ tm' # tm
    /\ UNCHANGED <<page, kv, obs>>

\* the timeout of line 1285 fires
TooltipHideTimer ==
    /\ tm.tip.hideTimer
    /\ tm' = doHide(tm)
    /\ UNCHANGED <<page, kv, obs>>

NextTooltip ==
    \/ DotOver
    \/ TooltipUpdateTimer
    \/ DotOut
    \/ TooltipHideTimer

SpecTooltip == InitTooltip /\ [][NextTooltip]_vars

\* Text truncation as a function of its input: the hovered dot carries any
\* text of up to MaxText code units (ill-formed and unnormalised ones
\* included), the tooltip is one or two glyphs wide.
Labels == UNION {[1..k -> CodeUnits] : k \in 0..MaxText}
NarrowWindows == {[innerWidth |-> 360, dotLeft |-> 300, dotRight |-> 312, maxW |-> 160],
                  [innerWidth |-> 360, dotLeft |-> 300, dotRight |-> 312, maxW |-> 288]}

InitTruncate ==
    /\ \E w \in NarrowWindows, label \in Labels :
          page = [InitPage(Elements, Spread, 300, FALSE, 12, 80) EXCEPT
                     !.win = [innerWidth |-> w.innerWidth, dotLeft |-> w.dotLeft,
                              dotRight |-> w.dotRight, maxW |-> w.maxW,
                              label |-> label]]
    /\ kv = [data |-> {}, ops |-> << >>, notes |-> << >>, nav |-> NoValue]
    /\ tm = [InitTm(kv.data) EXCEPT !.initialRenderTimer = FALSE]
    /\ obs = InitObs

NextTruncate ==
    \/ DotOver
    \/ TooltipUpdateTimer

SpecTruncate == InitTruncate /\ [][NextTruncate]_vars

\* The truncation cache: it starts empty, one short of full or full (filled
\* by the tooltips of a hundred dots labelled with their numbers), the
\* pointer moves between dots of three labels, the page changes its theme.
CacheFills == {0, MAX_CACHE_SIZE - 1, MAX_CACHE_SIZE}
CacheLabels == {<<Letter>>, <<Letter, Letter, Letter, Letter>>,
                <<Letter, Letter, Letter, Letter, Letter, Letter, Letter>>}
CacheWindow == [innerWidth |-> 360, dotLeft |-> 300, dotRight |-> 312, maxW |-> 160]

\* the manager after the tooltips of dots "1" to n (n <= MAX_CACHE_SIZE)
\* have been shown: every label was new and none was evicted
filledCache(t, p, n) ==
    LET width == computePlacementInfo(p).width
    IN  [t EXCEPT !.truncateCache =
            [i \in 1..n |-> [key |-> <<toDecimal(i), width>>,
                             value |-> truncatedLayout(toDecimal(i), width, t.lineH),
                             storedAt |-> p.themeChanges]]]

InitCache ==
    /\ \E label \in CacheLabels :
          page = [InitPage(Elements, Spread, 300, FALSE, 12, 80) EXCEPT
                     !.win = [innerWidth |-> CacheWindow.innerWidth,
                              dotLeft |-> CacheWindow.dotLeft,
                              dotRight |-> CacheWindow.dotRight,
                              maxW |-> CacheWindow.maxW, label |-> label]]
    /\ kv = [data |-> {}, ops |-> << >>, notes |-> << >>, nav |-> NoValue]
    /\ \E n \in CacheFills :
          tm = filledCache([InitTm(kv.data) EXCEPT !.initialRenderTimer = FALSE], page, n)
    /\ obs = InitObs

\* the pointer moves to a dot with another label
MoveToDot ==
    /\ \E label \in CacheLabels :
          /\ label # page.win.label
          /\ page' = [page EXCEPT !.win.label = label]
    /\ tm' = showTooltipForDot(tm)
    /\ UNCHANGED <<kv, obs>>

\* the class of the html element or the colour scheme changes (lines
\* 927-951)
ThemeChange ==
    /\ page.themeChanges < MaxThemeChanges
    /\ page' = [page EXCEPT !.themeChanges = @ + 1]
    /\ tm' = IF attached(tm) THEN onThemeChange(tm) ELSE tm
    /\ UNCHANGED <<kv, obs>>

ThemeFrame ==
    /\ tm.themeRaf
    /\ tm' = themeFrame(tm, page)
    /\ UNCHANGED <<page, kv, obs>>

NextCache ==
    \/ DotOver
    \/ MoveToDot
    \/ TooltipUpdateTimer
    \/ ThemeChange
    \/ ThemeFrame

SpecCache == InitCache /\ [][NextCache]_vars

\* Geometry triggers: a short bar that is resized, scrolling, slider
\* drags, star toggles with their store writes and change events.  Frames
\* that were requested run and the store carries out the writes it holds.
InitSettle == InitWith({Spread}, HiddenBarHeights \cup {30}, {FALSE}, {{}})

NextSettle ==
    \/ InitialRender
    \/ Resize
    \/ Scroll
    \/ ScrollSyncFrame
    \/ SliderDown
    \/ SliderDrag
    \/ SliderUp
    \/ AttemptToggle
    \/ StoreWrite
    \/ StorageChanged

\* Initialisation: init() is suspended at the await of line 241 on a page
\* that holds the turns or none yet; the host page changes, the awaits
\* resolve, the host may tear the instance down at any point.
InitSuspended ==
    /\ \E present \in {{}, Elements} :
          page = [InitPage(present, Spread, 300, FALSE, 12, 80) EXCEPT !.dom = NoUi]
    /\ kv = [data |-> {starKey(ThisUrl, 1)}, ops |-> << >>, notes |-> << >>, nav |-> NoValue]
    /\ tm = [InitTm({}) EXCEPT !.ui = NoUi, !.initialRenderTimer = FALSE,
                               !.initAwait = "element"]
    /\ obs = InitObs

\* waitForElement resolves with the first turn (lines 1862-1869) and init
\* runs on to its second await: lines 242-249, loadStars up to line 1987
ElementsFound ==
    /\ tm.initAwait = "element"
    /\ page.present # {}
    /\ LET ui == injectTimelineUI(page, tm.instance)
       IN  /\ tm' = [tm EXCEPT !.ui = ui, !.starred = {}, !.starredIndexes = {},
                               !.initAwait = "stars"]
           /\ page' = [page EXCEPT !.dom = ui]
    /\ UNCHANGED <<kv, obs>>

\* the timeout of line 1873 resolves waitForElement with null; init
\* returns at line 242
ElementsTimeout ==
    /\ tm.initAwait = "element"
    /\ page.present = {}
    /\ tm' = [tm EXCEPT !.initAwait = "none"]
    /\ UNCHANGED <<page, kv, obs>>

\* getAllByPrefix resolves; loadStars fills the indexes and init arms the
\* initial-render timeout (line 253)
StarsLoaded ==
    /\ tm.initAwait = "stars"
    /\ tm' = [loadStars(tm, kv.data, page.url, FALSE) EXCEPT
                 !.initialRenderTimer = TRUE, !.initAwait = "none"]
    /\ UNCHANGED <<page, kv, obs>>

NextInit ==
    \/ ElementsFound
    \/ ElementsTimeout
    \/ StarsLoaded
    \/ InitialRender
    \/ DomMutation
    \/ DebouncedRebuild
    \/ ScrollSyncFrame
    \/ Destroy

SpecInit == InitSuspended /\ [][NextInit]_vars

\* Container finding: pages whose first message lies up to MaxAncestors
\* levels below the body, with no overflowing ancestor, one, or two; the
\* host page replaces the ancestors and the MutationObserver callback
\* looks the container up again.
OverflowChoices(body) ==
    {{}} \cup {{k} : k \in 1..(body + 1)} \cup {{1, body}, {body, body + 1}}

FinderDoms ==
    UNION {{[body |-> body, overflowing |-> levels] : levels \in OverflowChoices(body)} :
              body \in 1..MaxAncestors}

InitFinder ==
    /\ \E dom \in FinderDoms :
          /\ page = [InitPage(Elements, Spread, 300, FALSE, 12, 80) EXCEPT !.ancestors = dom]
          /\ tm = [InitTm({}) EXCEPT !.conversationContainer =
                       findConversationContainer(firstTurn(page), dom, DefaultOptions)]
    /\ kv = [data |-> {}, ops |-> << >>, notes |-> << >>, nav |-> NoValue]
    /\ obs = InitObs

\* the host page replaces the ancestors of the turns; the MutationObserver
\* callback (lines 598-602) runs ensureContainersUpToDate, which rebinds
\* to a container that differs and rebuilds at once (lines 637-690), and
\* re-arms the debounce timer
ContainersReplaced ==
    /\ CanRebuild
    /\ \E dom \in FinderDoms :
          /\ dom # page.ancestors
          /\ page' = [page EXCEPT !.ancestors = dom]
          /\ LET first == firstTurn(page')
                 newConv == findConversationContainer(first, dom, DefaultOptions)
                 rebound == IF first # NoElement /\ newConv # tm.conversationContainer
                            THEN recalculateAndRenderMarkers(
                                     [tm EXCEPT !.conversationContainer = newConv], page')
                            ELSE tm
             IN  tm' = debounced(rebound)
    /\ obs' = [obs EXCEPT !.computed = FALSE]
    /\ UNCHANGED kv

NextFinder ==
    \/ InitialRender
    \/ ContainersReplaced
    \/ DebouncedRebuild

SpecFinder == InitFinder /\ [][NextFinder]_vars

\* Scroll-sync frames: scroll events, resizes, the frames they request and
\* teardown.  The browser runs a requested animation frame.
NextFrames ==
    \/ InitialRender
    \/ Scroll
    \/ Resize
    \/ ScrollSyncFrame
    \/ Destroy

\* ScrollSyncFrame is enabled exactly when a frame is pending: its weak
\* fairness is written out with that condition
SpecFrames ==
    /\ InitSettle
    /\ [][NextFrames]_vars
    /\ \/ []<>~tm.scrollRafId
       \/ []<><<ScrollSyncFrame>>_vars

SpecSettle ==
    /\ InitSettle
    /\ [][NextSettle]_vars
    /\ WF_vars(StoreWrite)
    /\ \/ []<>~tm.scrollRafId
       \/ []<><<ScrollSyncFrame>>_vars

\* ====================================================== the claims
\* C1: under SpecGeometry, the positions updateTimelineGeometry stores after
\* applyMinGap keep every two consecutive markers at least the minimum gap
\* apart and every marker between the padding and the content height minus
\* the padding; the content height is at least 2 * pad + (N - 1) * minGap.
C1_GapAndBounds ==
    LET N == Len(tm.yPositions)
        pad == getTrackPadding(page)
        gap == getMinGap(page)
    IN  /\ N > 0 => tm.contentHeight >= 2 * pad + (N - 1) * gap
        /\ N > 0 => tm.contentHeight >= page.barH
        /\ \A i \in 1..(N - 1) :
              tm.yPositions[i + 1] - tm.yPositions[i] >= Px(tm, gap)
        /\ \A i \in 1..N :
              /\ Px(tm, pad) <= tm.yPositions[i]
              /\ tm.yPositions[i] <= Px(tm, tm.contentHeight - pad)

\* a full set of markers of which one was pulled back from its desired
\* position by the backward pass
C1_Witness ==
    /\ Len(tm.yPositions) = MaxN
    /\ \E i \in 1..Len(tm.yPositions) :
          tm.yPositions[i] < Px(tm, getTrackPadding(page))
             + tm.markers[i].base * Max(1, tm.contentHeight - 2 * getTrackPadding(page))

\* C2: under Spec, once a virtualization pass has completed, a marker has
\* a dot handle exactly when its position lies in the band
\* [scrollTop - buffer, scrollTop + viewportHeight + buffer] of the track,
\* and the dots on the track are those handles.
C2_DotsMatchBand ==
    (tm.lastPass.ran /\ tm.lastPass.committed /\ Len(tm.markers) > 0) =>
        /\ \A i \in 1..Len(tm.markers) :
              tm.markers[i].dotElement.on <=> InBand(tm, page, i)
        /\ tm.trackDots = {i - 1 : i \in {j \in 1..Len(tm.markers) : tm.markers[j].dotElement.on}}

\* a pass on a scrolled track took a dot away and left others in place
C2_Witness ==
    /\ tm.lastPass.ran /\ tm.lastPass.committed
    /\ tm.lastPass.removed # {}
    /\ \E i \in 1..Len(tm.markers) : tm.markers[i].dotElement.on
    /\ \E i \in 1..Len(tm.markers) : ~tm.markers[i].dotElement.on

\* C3: under SpecGeometry, the index range the two binary searches compute
\* contains every marker whose position lies in the band, is a range of
\* marker indices, and is empty (end = start - 1) when no marker lies in
\* the band; the buffer is at least the viewport height of the track.
C3_RangeCoversBand ==
    LET N == Len(tm.yPositions)
        rg == virtualRange(tm, page)
    IN  N > 0 =>
          /\ virtualBuffer(page) >= page.barH
          /\ \A i \in 1..N :
                InBand(tm, page, i) => (rg.start <= i - 1 /\ i - 1 <= rg.end)
          /\ rg.start >= 0 /\ rg.end <= N - 1 /\ rg.end >= rg.start - 1
          /\ (\A i \in 1..N : ~InBand(tm, page, i)) => rg.end = rg.start - 1

\* the pass rendered a range that holds some markers and leaves out others
C3_Witness ==
    /\ tm.lastPass.ran
    /\ tm.visibleRange = virtualRange(tm, page)
    /\ tm.visibleRange.end >= tm.visibleRange.start
    /\ tm.visibleRange.end - tm.visibleRange.start + 1 < Len(tm.yPositions)

\* the ids and elements of the marker sequence, in order
markerModel(t) == [i \in 1..Len(t.markers) |-> <<t.markers[i].id, t.markers[i].element>>]

\* C4: under SpecActive, activeTurnId is, whenever it is set and markers
\* exist, the id of exactly one marker of the current model, and at most
\* one dot carries the active flag.
C4_ActiveIsCurrentMarker ==
    /\ (tm.activeTurnId # NoId /\ Len(tm.markers) > 0) =>
          Cardinality({i \in 1..Len(tm.markers) : tm.markers[i].id = tm.activeTurnId}) = 1
    /\ Cardinality({i \in 1..Len(tm.markers) :
                       tm.markers[i].dotElement.on /\ tm.markers[i].dotElement.active}) <= 1

C6_NoMutationBeforeRecheck ==
    tm.lastPass.ran => (tm.lastPass.removed = {} /\ tm.lastPass.assigned = {})

\* the marker the selection rule picks for the scroll position: the first
\* at the top, the last at the bottom, otherwise the last of the leading
\* markers at or above the reference point, the first when there is none
ruleSelection(t, p) ==
    LET N == Len(t.markers)
        run == {i \in 1..N : \A j \in 1..i :
                   20 * RectTop(p, t.markers[j].element) <= 9 * p.clientHeight}
    IN  IF N = 0 THEN NoId
        ELSE IF p.scrollTop < 10 THEN t.markers[1].id
        ELSE IF p.scrollTop + p.clientHeight >= p.scrollHeight - 10 THEN t.markers[N].id
        ELSE IF run = {} THEN t.markers[1].id
        ELSE t.markers[CHOOSE i \in run : \A j \in run : j <= i].id

C8_ToggleTwiceRestores ==
    LET tr == obs.trial
    IN  (tr.phase = 2 /\ QueuesEmpty) =>
          /\ tm.starred = tr.starred
          /\ tm.starredIndexes = tr.indexes
          /\ \A i \in 1..Len(tm.markers) :
                tm.markers[i].id = tr.id => tm.markers[i].starred = tr.flag
          /\ kv.data = tr.data
          /\ tr.issued[1].key = tr.issued[2].key
          /\ {tr.issued[1].op, tr.issued[2].op} = WriteKinds

\* C9: under SpecSync, a delivered change event without a new value whose
\* key is this page's prefix followed by the index i of a marker clears the
\* starred flag of the marker at index i and leaves the flag of every other
\* marker and the stored keys as they were; an event whose key does not
\* start with this page's prefix leaves the flags, the starred ids and the
\* starred indexes as they were.
C9_ChangeEventFrame ==
    [][obs'.delivered = obs.delivered + 1 =>
         LET key == obs'.note.key
             prefix == starPrefix(ThisUrl)
             flags(t) == [i \in 1..Len(t.markers) |-> t.markers[i].starred]
         IN  /\ Len(tm'.markers) = Len(tm.markers)
             /\ kv'.data = kv.data
             /\ \A i \in 0..(Len(tm.markers) - 1) :
                   (key = starKey(ThisUrl, i) /\ ~obs'.note.hasNewValue) =>
                      /\ ~tm'.markers[i + 1].starred
                      /\ \A j \in 1..Len(tm.markers) :
                            j # i + 1 => tm'.markers[j].starred = tm.markers[j].starred
             /\ ~startsWith(key, prefix) =>
                   /\ flags(tm') = flags(tm)
                   /\ tm'.starred = tm.starred
                   /\ tm'.starredIndexes = tm.starredIndexes]_vars

\* a removal event for the index of a starred marker has been handled:
\* that marker's flag is cleared while another marker is still starred
C9_Witness ==
    /\ obs.delivered > 0
    /\ ~obs.note.hasNewValue
    /\ \E i \in 0..(Len(tm.markers) - 1) :
          /\ obs.note.key = starKey(ThisUrl, i)
          /\ ~tm.markers[i + 1].starred
          /\ i \notin tm.starredIndexes
          /\ \E j \in 1..Len(tm.markers) : tm.markers[j].starred

\* C11: under SpecLifecycle, once destroy() has returned, no timer and no
\* animation frame of the instance is outstanding (debounced rebuild,
\* initial-render delay, zero-turns retry, active-change, scroll-sync and
\* scroll-animation) and no callback of the instance has faulted.
C11_QuietAfterDestroy ==
    (tm.torn > 0 /\ ~attached(tm)) =>
        /\ ~tm.debounceTimer
        /\ ~tm.initialRenderTimer
        /\ ~tm.zeroTurnsTimer
        /\ tm.activeChangeTimer = -1
        /\ ~tm.scrollRafId
        /\ ~tm.scrollAnim.on
        /\ ~obs.fault

\* C12: under SpecLifecycle, the bar and the slider an initialised instance
\* refers to are in the document, whatever destroy() calls of the previous
\* instance have run.
C12_LiveUiKept ==
    attached(tm) =>
        /\ page.dom.timelineBar = tm.ui.timelineBar
        /\ page.dom.slider = tm.ui.slider

\* C13: under SpecUnstar, code that resumes after an awaited store
\* operation and writes marker state writes at the build generation at
\* which its handler began.
C13_ContinuationRevalidates ==
    obs.asyncWrite.wrote => obs.asyncWrite.applied = obs.asyncWrite.began

\* C17: under SpecHandoff, a stored target index is obtained by at most one
\* getNavigateData call, only on the page it was stored for, and starts at
\* most one auto-scroll.
C17_HandoffConsumedOnce ==
    /\ obs.nav.taken <= 1
    /\ obs.nav.scrolls <= 1
    /\ obs.nav.taken > 0 => obs.nav.for = ThisUrl

\* C14: under Spec, once MaxRetries firings of the zero-turns timer in a
\* row have found the page still empty, no further retry is armed.
C14_RetriesGiveUp ==
    obs.retries >= MaxRetries => ~tm.zeroTurnsTimer

\* C15: under SpecStar, after a rebuild the marker at index i is starred
\* exactly when i is in starredIndexes, and the rebuild leaves starredIndexes
\* and the stored keys as they were.
C15_RebuildKeepsStars ==
    [][tm'.markersVersion > tm.markersVersion =>
         /\ \A i \in 1..Len(tm'.markers) :
               tm'.markers[i].starred <=> (i - 1) \in tm'.starredIndexes
         /\ tm'.starredIndexes = tm.starredIndexes
         /\ kv'.data = kv.data]_vars

\* a second rebuild has run on a page that lost a turn, flags untouched by
\* toggles and change events: the marker at a starred index is starred,
\* the other is not
C15_Witness ==
    /\ tm.markersVersion >= 2
    /\ obs.toggles = 0 /\ obs.delivered = 0
    /\ Len(tm.markers) = MaxN - 1
    /\ \E i \in 1..Len(tm.markers) : tm.markers[i].starred /\ (i - 1) \in tm.starredIndexes
    /\ \E i \in 1..Len(tm.markers) : ~tm.markers[i].starred

\* C16: under SpecStar, a marker's starred flag holds exactly when its id
\* is in the starred set, and a rendered dot is styled starred exactly when
\* its marker's flag holds.
C16_FlagMirrorsSet ==
    \A i \in 1..Len(tm.markers) :
        /\ tm.markers[i].starred <=> tm.markers[i].id \in tm.starred
        /\ tm.markers[i].dotElement.on =>
              (tm.markers[i].dotElement.starred <=> tm.markers[i].starred)

\* a scroll-sync frame: the step that takes the requested frame
SyncFrameStep == tm.scrollRafId /\ ~tm'.scrollRafId /\ tm'.markersVersion = tm.markersVersion

\* C18: under Spec, forward synchronisation leaves the track offset as it is
\* in every state in which the handle is dragged, a scroll-sync frame that
\* runs during a drag does not change the track offset, and a scroll-sync
\* frame that runs when no drag is in progress leaves the track offset
\* within 1px of the offset computed from the primary scroll position.
C18_DragSuppressesSync ==
    [][/\ tm.sliderDragging =>
             syncTimelineTrackToMain(tm, page).trackScrollTop = tm.trackScrollTop
       /\ (SyncFrameStep /\ tm.sliderDragging) =>
             tm'.trackScrollTop = tm.trackScrollTop
       /\ (SyncFrameStep /\ ~tm.sliderDragging /\ tm.contentHeight > 0) =>
             Abs(tm'.trackScrollTop - syncTarget(tm, page)) <= 1]_vars

\* the handle moved the track, a scroll-sync frame ran during the drag, the
\* handle was released and the next scroll-sync frame has put the track
\* back where the primary scroll position maps to, away from the top
C18_Witness ==
    /\ obs.drag = 4
    /\ ~tm.sliderDragging
    /\ tm.trackScrollTop = syncTarget(tm, page)
    /\ tm.trackScrollTop > 0

\* a drag step: the handle moves the track while the page and the markers
\* stay as they are
DragStep ==
    /\ tm.sliderDragging /\ tm'.sliderDragging
    /\ tm'.trackScrollTop # tm.trackScrollTop
    /\ tm'.markersVersion = tm.markersVersion
    /\ page'.barH = page.barH

\* C19: under Spec, after a drag of the handle has moved the track, the
\* primary scroll offset is the one that corresponds to the track offset:
\* the forward mapping of the primary scroll offset gives the track offset
\* within 1px.
C19_DragScrollsPrimary ==
    [][DragStep => Abs(syncTarget(tm', page') - tm'.trackScrollTop) <= 1]_vars

\* C20: under Spec, a scroll-sync frame that runs when no drag is in
\* progress leaves the track offset within 1px of
\* round(ratio * (contentHeight - trackViewportHeight)), where ratio is
\* clamp01((scrollTop + 0.45 * clientHeight - firstOffset) / span) and
\* firstOffset is the pixel offset of the first marker.
C20_ForwardMapping ==
    [][(SyncFrameStep /\ ~tm.sliderDragging /\ Len(tm.markers) > 0) =>
          LET firstOffset == DocTop(page, tm.markers[1].element)
              den == 20 * Max(1, tm.contentSpanPx)
              num == 20 * page.scrollTop + 9 * page.clientHeight - 20 * firstOffset
              target == RoundDiv(Clamp(0, num, den)
                                   * Max(0, tm.contentHeight - page.barH), den)
          IN  Abs(tm'.trackScrollTop - target) <= 1]_vars

\* C21: under SpecActive, once the active marker has been computed for the
\* scroll position and the content and no active-change timer is pending,
\* the active marker is the first marker when the scroll offset is within
\* 10px of the top, the last marker when it is within 10px of the bottom,
\* and otherwise the last marker whose element top is at or above the
\* reference point (container top + 0.45 * viewport height), the first
\* marker when there is none.
C21_ActiveFollowsRule ==
    (obs.computed /\ Len(tm.markers) > 0 /\ tm.activeChangeTimer = -1) =>
        LET N == Len(tm.markers)
            above == {i \in 1..N :
                        20 * RectTop(page, tm.markers[i].element) <= 9 * page.clientHeight}
            selected == IF page.scrollTop < 10 THEN 1
                        ELSE IF page.scrollTop + page.clientHeight >= page.scrollHeight - 10
                        THEN N
                        ELSE IF above = {} THEN 1
                        ELSE CHOOSE i \in above : \A j \in above : j <= i
        IN  tm.activeTurnId = tm.markers[selected].id

\* C22 as stated: under SpecActive, a scroll-sync frame whose candidate
\* differs from the active marker less than MIN_ACTIVE_CHANGE_INTERVAL after
\* the last applied change leaves the active marker as it is and buffers
\* the candidate with a timer pending; a frame that runs while a timer is
\* pending arms no other timer; and the firing of the timer makes the
\* buffered candidate the active marker.
C22_AntiFlicker ==
    [][/\ (/\ SyncFrameStep /\ Len(tm.markers) > 0
           /\ ruleSelection(tm, page) # tm.activeTurnId
           /\ tm.elapsed < MIN_ACTIVE_CHANGE_INTERVAL) =>
              /\ tm'.activeTurnId = tm.activeTurnId
              /\ tm'.pendingActiveId = ruleSelection(tm, page)
              /\ tm'.activeChangeTimer # -1
       /\ (SyncFrameStep /\ tm.activeChangeTimer # -1) =>
              tm'.activeChangeTimer = tm.activeChangeTimer
       /\ (tm.activeChangeTimer = 0 /\ tm'.activeChangeTimer = -1
              /\ tm.pendingActiveId # NoId) =>
              tm'.activeTurnId = tm.pendingActiveId]_vars

\* C22 amended: under SpecActive, the same, for the candidates of scroll
\* positions that are within 10px of neither the top nor the bottom.
C22_AntiFlickerAwayFromEdges ==
    [][/\ (/\ SyncFrameStep /\ Len(tm.markers) > 0
           /\ ~atTop(page) /\ ~atBottom(page)
           /\ ruleSelection(tm, page) # tm.activeTurnId
           /\ tm.elapsed < MIN_ACTIVE_CHANGE_INTERVAL) =>
              /\ tm'.activeTurnId = tm.activeTurnId
              /\ tm'.pendingActiveId = ruleSelection(tm, page)
              /\ tm'.activeChangeTimer # -1
       /\ (SyncFrameStep /\ tm.activeChangeTimer # -1) =>
              tm'.activeChangeTimer = tm.activeChangeTimer
       /\ (tm.activeChangeTimer = 0 /\ tm'.activeChangeTimer = -1
              /\ tm.pendingActiveId # NoId) =>
              tm'.activeTurnId = tm.pendingActiveId]_vars

\* two candidates were buffered on one timer and its firing has made the
\* later one, the rule's selection for the scroll position, the active marker
C22_Witness ==
    /\ obs.buffered = 2
    /\ obs.trailing
    /\ tm.activeChangeTimer = -1
    /\ ~atTop(page) /\ ~atBottom(page)
    /\ tm.activeTurnId = ruleSelection(tm, page)

\* C23: under SpecStar, a toggle of the id of the marker at index i flips
\* the marker's starred flag, makes i a member of starredIndexes exactly
\* when the marker is now starred, leaves the other indexes as they were and
\* hands the store exactly one operation, a set when the marker is now
\* starred and a remove otherwise, under the key of this page's url and i;
\* a toggle of an id that no marker has changes nothing and hands the store
\* nothing.
C23_ToggleEffect ==
    [][obs'.toggles = obs.toggles + 1 =>
         LET id == obs'.lastToggle
             index == markerIndex(tm, id)
         IN  IF index = -1
             THEN tm' = tm /\ kv' = kv
             ELSE LET now == tm'.markers[index + 1].starred
                  IN  /\ now = ~tm.markers[index + 1].starred
                      /\ (index \in tm'.starredIndexes) = now
                      /\ tm'.starredIndexes \ {index} = tm.starredIndexes \ {index}
                      /\ kv'.ops = Append(kv.ops,
                              [op |-> IF now THEN "set" ELSE "remove",
                               key |-> starKey(ThisUrl, index)])
                      /\ kv'.data = kv.data]_vars

\* C24: under SpecFailure, no rejected store operation raises an error;
\* after a rejected load, until a star is toggled, the starred ids and the
\* starred indexes are empty and no marker is starred; and a step in which
\* the remove of the starred list's un-star action is rejected leaves the
\* starred ids, the starred indexes and the markers as they were.
C24_FailuresSwallowed ==
    [][/\ ~obs'.fault
       /\ (obs'.loadRejected /\ obs'.toggles = 0) =>
             /\ tm'.starred = {} /\ tm'.starredIndexes = {}
             /\ \A i \in 1..Len(tm'.markers) : ~tm'.markers[i].starred
       /\ (tm.unstar.on /\ ~tm'.unstar.on
              /\ starKey(ThisUrl, tm.unstar.index) \in kv'.data) =>
             /\ tm'.starred = tm.starred
             /\ tm'.starredIndexes = tm.starredIndexes
             /\ tm'.markers = tm.markers]_vars

\* the remove of an un-star action was rejected while the marker of the
\* stored star is starred: the star is still in memory and in the store
C24_Witness ==
    /\ obs.unstarRejected
    /\ ~tm.unstar.on
    /\ Len(tm.markers) = MaxN
    /\ tm.markers[2].starred
    /\ 1 \in tm.starredIndexes
    /\ starKey(ThisUrl, 1) \in kv.data
    /\ ~obs.fault

\* C25: under Spec, no virtualization pass destroys the handle of a marker
\* and creates another one for it: a marker that had a handle before the
\* pass and is in the pass's range keeps that handle, whatever scrolls,
\* resizes and rebuild attempts came between this pass and the one before.
C25_IncrementalReconcile ==
    tm.lastPass.ran => tm.lastPass.removed \cap tm.lastPass.assigned = {}

C27_OrderedAndNormalised ==
    LET N == Len(tm.markers)
        top(i) == DocTop(page, tm.markers[i].element)
    IN  /\ \A i \in 1..(N - 1) : top(i) <= top(i + 1)
        /\ \A i \in 1..N :
              /\ tm.markers[i].n.den > 0
              /\ 0 <= tm.markers[i].n.num
              /\ tm.markers[i].n.num <= tm.markers[i].n.den
        /\ \A i \in 1..(N - 1) :
              /\ tm.markers[i].n.den = tm.markers[i + 1].n.den
              /\ tm.markers[i].n.num <= tm.markers[i + 1].n.num
        /\ (N = 1 \/ (N > 1 /\ top(N) - top(1) <= 0)) => tm.markers[1].n.num = 0

\* every turn has the same top offset: the span is not positive, the gap
\* correction has spread the markers and a resize has recomputed them
C27_Witness ==
    /\ Len(tm.markers) = MaxN
    /\ \A i \in 1..MaxN : DocTop(page, tm.markers[i].element)
                              = DocTop(page, tm.markers[1].element)
    /\ tm.contentSpanPx = 1
    /\ tm.markers[1].n.num = 0
    /\ tm.markers[MaxN].n.num > tm.markers[2].n.num
    /\ tm.markers[2].n.num > 0
    /\ tm.lastPass.ran

\* C28: under SpecRelax, when the desired positions (padding + baseN times
\* the usable span) are at least the minimum gap apart and within the
\* bounds, the stored positions are the desired ones; three markers at 0,
\* 0.5 and 1 in a 200 px bar with padding 12 and minimum gap 40 are stored
\* at 12, 100 and 188.
C28_NoCorrectionNeeded ==
    LET N == Len(tm.markers)
        pad == page.trackPadding
        usable == tm.contentHeight - 2 * pad
        \* in the unit of yPositions: pixels times the content span
        desired == [i \in 1..N |-> Px(tm, pad) + tm.markers[i].base * usable]
        satisfied ==
            /\ \A i \in 1..(N - 1) : desired[i + 1] - desired[i] >= Px(tm, page.minGap)
            /\ \A i \in 1..N : Px(tm, pad) <= desired[i] /\ desired[i] <= Px(tm, pad + usable)
    IN  /\ (usable >= 1 /\ satisfied) => tm.yPositions = desired
        /\ (/\ N = 3
            /\ \A i \in 1..N : 2 * tm.markers[i].base = (i - 1) * tm.contentSpanPx
            /\ page.barH = 200 /\ pad = 12 /\ page.minGap = 40)
              => tm.yPositions = <<Px(tm, 12), Px(tm, 100), Px(tm, 188)>>

\* the scenario of three markers, recomputed by a resize to 200 px
C28_Witness ==
    /\ Len(tm.markers) = 3
    /\ \A i \in 1..3 : 2 * tm.markers[i].base = (i - 1) * tm.contentSpanPx
    /\ page.barH = 200 /\ page.trackPadding = 12 /\ page.minGap = 40
    /\ tm.contentHeight = 200
    /\ tm.lastPass.ran
    /\ tm.yPositions = <<Px(tm, 12), Px(tm, 100), Px(tm, 188)>>

C30_TooltipPlacement ==
    tm.tip.visible =>
        LET leftAvail == Max(0, page.win.dotLeft - tooltipGap - viewportPad)
            rightAvail == Max(0, page.win.innerWidth - page.win.dotRight
                                    - tooltipGap - viewportPad)
            availOn(side) == IF side = "right" THEN rightAvail ELSE leftAvail
            tier == {tiers[i] : i \in 1..Len(tiers)}
            fits(side) == {w \in tier : w <= availOn(side) /\ w <= page.win.maxW}
            preferred == IF rightAvail > leftAvail THEN "right" ELSE "left"
            other == IF preferred = "right" THEN "left" ELSE "right"
            chosen == tm.tip.placement
        IN  /\ chosen \in {"left", "right"}
            /\ rightAvail > leftAvail => chosen = "right"
            /\ leftAvail > rightAvail => chosen = "left"
            /\ fits(chosen) # {} =>
                  /\ tm.tip.width \in fits(chosen)
                  /\ \A w \in fits(chosen) : w <= tm.tip.width
            /\ (fits(preferred) = {} /\ fits(other) # {}) => chosen = other
            /\ (\E side \in {"left", "right"} : \E w \in tier : w <= availOn(side))
                  => tm.tip.width <= availOn(chosen)

\* a tooltip on the left whose width the space (266 px), not the configured
\* maximum, limits to the second tier
C30_Witness ==
    /\ tm.tip.visible
    /\ tm.tip.placement = "left"
    /\ tm.tip.width = 240
    /\ page.win.maxW = 288
    /\ page.win.dotLeft - tooltipGap - viewportPad < 280
    /\ page.win.innerWidth - page.win.dotRight - tooltipGap - viewportPad < 160

\* C31: under SpecTruncate, the text of a displayed tooltip is the
\* whitespace-normalised label itself when that fits the maximum height;
\* otherwise it is a prefix of the normalised label followed by the
\* ellipsis, it fits, and no longer prefix that is a cut of its own (one
\* that ends neither in a blank nor between the halves of a surrogate
\* pair) fits with the ellipsis; and for a well-formed label the prefix
\* does not end with a high surrogate.
C31_TruncatedPrefix ==
    tm.tip.visible =>
        LET raw == normalised(page.win.label)
            width == tm.tip.width
            maxH == maxHOf(tm.lineH)
            out == tm.tip.layout.text
            pre == SubSeq(out, 1, Len(out) - 1)
            wellFormed ==
                \A i \in 1..Len(raw) :
                    /\ raw[i] = HighSurrogate => (i < Len(raw) /\ raw[i + 1] = LowSurrogate)
                    /\ raw[i] = LowSurrogate => (i > 1 /\ raw[i - 1] = HighSurrogate)
        IN  IF offsetHeight(raw, width) <= maxH
            THEN out = raw
            ELSE /\ out # << >> /\ out[Len(out)] = ell
                 /\ Len(pre) < Len(raw) /\ pre = SubSeq(raw, 1, Len(pre))
                 /\ offsetHeight(out, width) <= maxH
                 /\ \A m \in (Len(pre) + 1)..Len(raw) :
                       \/ raw[m] = Blank
                       \/ (raw[m] = HighSurrogate /\ m < Len(raw))
                       \/ offsetHeight(SubSeq(raw, 1, m) \o <<ell>>, width) > maxH
                 /\ wellFormed => (pre = << >> \/ pre[Len(pre)] # HighSurrogate)

\* an unnormalised, well-formed label is cut just before a surrogate pair
\* of which only the first half would have fitted
C31_Witness ==
    /\ tm.tip.visible
    /\ page.win.label # normalised(page.win.label)
    /\ normalised(page.win.label) = <<Letter, Letter, HighSurrogate, LowSurrogate,
                                       HighSurrogate, LowSurrogate>>
    /\ tm.tip.layout.text = <<Letter, Letter, HighSurrogate, LowSurrogate, ell>>

C33_GeometryTriggers ==
    /\ [][(\/ tm'.contentHeight # tm.contentHeight
           \/ tm'.yPositions # tm.yPositions
           \/ [i \in 1..Len(tm'.markers) |-> tm'.markers[i].n]
                 # [i \in 1..Len(tm.markers) |-> tm.markers[i].n])
             => \/ tm'.markersVersion # tm.markersVersion
                \/ page'.barH # page.barH
                \/ tm'.minGapIdle # tm.minGapIdle]_vars
    /\ (page.barH = 300) ~> (tm.minGapIdle > 0)

\* C34: under Spec, every marker that has a dot has the dot flagged active
\* if and only if the marker's id is the active id, so at most one dot is
\* flagged.
C34_ActiveFlagMirrorsId ==
    /\ \A i \in 1..Len(tm.markers) :
          tm.markers[i].dotElement.on =>
              (tm.markers[i].dotElement.active <=> tm.markers[i].id = tm.activeTurnId)
    /\ Cardinality({i \in 1..Len(tm.markers) :
                       tm.markers[i].dotElement.on /\ tm.markers[i].dotElement.active}) <= 1

\* the last marker was active after the rebuild; a scroll-sync frame at the
\* top has made the first marker active, both dots exist, and a
\* virtualization pass has run
C34_Witness ==
    /\ Len(tm.markers) = MaxN
    /\ obs.computed /\ tm.lastPass.ran
    /\ tm.activeTurnId = tm.markers[1].id
    /\ tm.markers[1].dotElement.on /\ tm.markers[1].dotElement.active
    /\ tm.markers[MaxN].dotElement.on /\ ~tm.markers[MaxN].dotElement.active

\* C35: under SpecFrames, the instance never has more than one scroll-sync
\* frame in the browser's queue and a step taken while one is pending adds
\* none; the step that runs the frame leaves the state that track sync,
\* then the virtualization pass, then the active-marker computation (and
\* the slider update) produce in that order; and a pending frame is always
\* followed by a state where it has run or was cancelled by destroy (only
\* those two steps clear scrollRafId).
C35_OneFramePerBurst ==
    /\ [](tm.scrollFrames <= 1 /\ (tm.scrollRafId <=> tm.scrollFrames = 1))
    /\ [][tm.scrollRafId => tm'.scrollFrames <= tm.scrollFrames]_vars
    /\ [][(tm.scrollRafId /\ ~tm'.scrollRafId /\ attached(tm')) =>
              LET t0 == [tm EXCEPT !.scrollRafId = FALSE, !.scrollFrames = 0]
                  synced == syncTimelineTrackToMain(t0, page)
                  rendered == updateVirtualRangeAndRender(synced, page)
                  computed == computeActiveByScroll(rendered, page)
              IN  tm' = updateSlider(computed, page)]_vars
    /\ (tm.scrollRafId ~> ~tm.scrollRafId)

\* a scroll event arrived while a frame was pending, and that one frame
\* has run for the scrolled position with part of the markers rendered
C35_Witness ==
    /\ attached(tm) /\ Len(tm.markers) = MaxN
    /\ page.scrollTop # 0
    /\ ~tm.scrollRafId /\ tm.scrollFrames = 0
    /\ obs.computed /\ tm.lastPass.ran
    /\ \E i \in 1..MaxN : ~tm.markers[i].dotElement.on

\* C36 as stated: under SpecActive, when markers exist and no timer, frame
\* or animation of the instance is outstanding, the active id is the id the
\* selection rule yields for the scroll position; and a firing of the
\* trailing timer with no rebuild and no sync frame outstanding that
\* changes the active id changes it to the rule's selection.
C36_QuiescentConvergence ==
    /\ []((attached(tm) /\ quiescent(tm) /\ Len(tm.markers) > 0) =>
              tm.activeTurnId = ruleSelection(tm, page))
    /\ [][(/\ tm.activeChangeTimer # -1 /\ tm'.activeChangeTimer = -1
            /\ attached(tm')
            /\ ~tm.debounceTimer /\ ~tm.zeroTurnsTimer /\ ~tm.scrollRafId
            /\ tm'.activeTurnId # tm.activeTurnId) =>
              tm'.activeTurnId = ruleSelection(tm, page)]_vars

\* C37 as stated: under SpecSync, after the delivery of a change event for
\* a star key of this page with index i, starredIndexes contains i if and
\* only if the event carries a new value (the record exists), whether or
\* not a marker exists at index i.
C37_IndexesFollowStore ==
    [][(obs'.delivered = obs.delivered + 1) =>
          LET note == obs'.note
              prefix == starPrefix(page.url)
              index == parseInt(substring(note.key, Len(prefix)))
          IN  (startsWith(note.key, prefix) /\ index # NaN) =>
                  ((index \in tm'.starredIndexes) <=> note.hasNewValue)]_vars

\* C38 as stated: under SpecInit, a resumption of init() on an instance
\* that has been destroyed leaves the instance's UI references, the
\* document's timeline elements and the initial-render timeout as they
\* were, and a destroyed instance has no UI in the document.
C38_DestroyedStaysTornDown ==
    /\ [][(tm.torn > 0 /\ tm'.initAwait # tm.initAwait) =>
              /\ tm'.ui = tm.ui
              /\ page'.dom = page.dom
              /\ tm'.initialRenderTimer = tm.initialRenderTimer]_vars
    /\ [](tm.torn > 0 => (~attached(tm) /\ page.dom = NoUi))

\* C39 as stated: under Spec, a rebuild attempt (the initial render, the
\* debounced rebuild or the zero-turns retry) that runs on an attached
\* instance while the page holds no turn leaves the markers with their
\* dots, the build generation, the geometry and the recorded visible range
\* unchanged and leaves the zero-turns retry timer armed; a rebuild that
\* finds turns leaves no retry timer armed.
C39_ZeroTurnsKeepsState ==
    [][LET attempt == \/ tm.debounceTimer /\ ~tm'.debounceTimer
                      \/ tm.initialRenderTimer /\ ~tm'.initialRenderTimer
                      \/ obs'.retries = obs.retries + 1
                      \/ tm.zeroTurnsTimer /\ ~tm'.zeroTurnsTimer
       IN  /\ (attempt /\ attached(tm) /\ page.present = {} /\ page' = page) =>
                  /\ tm'.markers = tm.markers
                  /\ tm'.markersVersion = tm.markersVersion
                  /\ tm'.contentHeight = tm.contentHeight
                  /\ tm'.yPositions = tm.yPositions
                  /\ tm'.visibleRange = tm.visibleRange
                  /\ tm'.zeroTurnsTimer
           /\ (attempt /\ attached(tm) /\ page.present # {} /\ page' = page) =>
                  ~tm'.zeroTurnsTimer]_vars

\* C40 as stated: under SpecFinder, findConversationContainer returns null
\* for a null first message; for the page's first turn it returns the
\* nearest ancestor up to the body and within maxDepth levels that is
\* scrollable and overflowing, and when there is none an ancestor at most
\* fallbackDepth levels above the first message that is not document.body;
\* the instance's conversation container is that result.
C40_FinderResult ==
    LET dom == page.ancestors
        result == findConversationContainer(firstTurn(page), dom, DefaultOptions)
        candidates == {k \in 1..Min(maxDepth, dom.body) : k \in dom.overflowing}
    IN  /\ findConversationContainer(NoElement, dom, DefaultOptions) = NoContainer
        /\ tm.conversationContainer = result
        /\ candidates # {} =>
               /\ result \in candidates
               /\ \A k \in candidates : result <= k
        /\ candidates = {} =>
               /\ result \in 1..fallbackDepth
               /\ result # dom.body

====
